---------------------------- MODULE Spec2Model ----------------------------
(***************************************************************************)
(* Glim: the admission-control and resilience core.                        *)
(*                                                                         *)
(*   - src/src/ratelimit.rs : TokenBucket, RateLimiter (global + per-IP    *)
(*     token buckets, lazy refill and the background refill task)          *)
(*   - src/src/github.rs    : GitHubClient (retry cache, circuit breaker,  *)
(*     upstream error classification)                                      *)
(*                                                                         *)
(* Time is counted in ticks of 1/TicksPerSec second, so that the           *)
(* truncation of Duration::as_secs is visible.                             *)
(***************************************************************************)
EXTENDS Integers, Sequences, FiniteSets, TLC

---------------------------------------------------------------------------
(* Bounds of the model *)

\* clock ticks per second
TicksPerSec == 2
\* concurrent specification: the last clock tick, the number of Check calls
MaxTime == 2
MaxChecks == 2
\* sequential specification: the same
MaxSeqTime == 3
MaxSeqChecks == 3
\* GitHub client: the number of get_repository_info calls
MaxFetches == 5

Callers == {1, 2}
IPs == {"A", "B"}
\* the configured capacities the limiter is built with
GlobalCaps == {1, 2}
PerIpCaps == {1, 2}
\* ip_memory_duration, in seconds: one that expires an entry before its bucket
\* can be refilled, and one that does not
MemoryDurations == {1, 2}

---------------------------------------------------------------------------
(* Rate limiter state *)

VARIABLES
    now,          \* the monotonic clock (Instant::now()), in ticks
    config,       \* RateLimiter.config
    buckets,      \* the TokenBucket objects, by identity; 0 is global_bucket
    next_bucket,  \* the identity the next TokenBucket::new gets
    ip_buckets,   \* RateLimiter.ip_buckets: IP -> bucket identity (0: none)
    inserted_at,  \* the insertion time of each ip_buckets entry (for the TTL)
    call,         \* each caller's position in check_rate_limit and its locals
    bg,           \* the background refill task's position and locals
    started,      \* history: Check calls started, per IP
    allowed,      \* history: Check calls that returned Allowed, per IP
    ip_denied,    \* history: Check calls that returned IpLimitExceeded, per IP
    refilled,     \* history: some refill has stored a token count
    last_check    \* history: when a Check call last looked up the bucket, per IP

rlvars == <<now, config, buckets, next_bucket, ip_buckets, inserted_at, call,
            bg, started, allowed, ip_denied, refilled, last_check>>

---------------------------------------------------------------------------
(* GitHub client state *)

VARIABLES
    cache,           \* GitHubClient.cache: repo_path -> CacheEntry (or Absent)
    breaker,         \* GitHubClient.circuit_breaker
    fetch,           \* each caller's position in get_repository_info and its locals
    fetch_count,     \* history: get_repository_info calls started, per key
    upstream_calls,  \* history: upstream HTTP requests sent, per key
    only500,         \* history: every upstream response so far was HTTP 500
    expired,         \* history: some cache entry has expired
    run              \* history: the latest run of upstream failures of one kind

ghvars == <<cache, breaker, fetch, fetch_count, upstream_calls, only500,
            expired, run>>

---------------------------------------------------------------------------
(* Content cache state (CacheManager over the foyer HybridCache) *)

VARIABLES
    l1,            \* the in-memory tier: key -> CacheValue (or NoValue)
    l2,            \* the on-disk tier: key -> CacheValue (or NoValue)
    inflight,      \* the fetches in flight: key -> [busy, owner, waiters]
    goc,           \* each caller's position in get_or_create and its locals
    next_fn,       \* the identity the next create_fn closure gets
    process_seed,  \* the random keys std's RandomState draws in this process run
    process_run,   \* history: the number of the process run
    gen_count,     \* history: create_fn executions, per key
    gen_log,       \* history: the create_fn closures that were executed
    served,        \* history: the value of the entry while it stays live, per key
    derived,       \* history: the keys hash_cacheable returned, with meaning and run
    disturbed      \* history: an eviction, a failed generation or a restart happened

ccvars == <<l1, l2, inflight, goc, next_fn, process_seed, process_run,
            gen_count, gen_log, served, derived, disturbed>>

---------------------------------------------------------------------------
(* Request handler state (src/src/server.rs) *)

VARIABLES
    req,           \* the handler's position and locals for the current request
    work,          \* history: SVG renderings and image encodings performed
    last_status    \* the RateLimitStatus the latest rate_limiter.status() returned

svvars == <<req, work, last_status>>

---------------------------------------------------------------------------
(* One TokenBucket with its counters at their u32 width *)

VARIABLES
    tb             \* a lone TokenBucket, the call on it and the call's outcome

tbvars == <<tb>>

---------------------------------------------------------------------------
(* The weighter of the content cache, applied to one entry *)

VARIABLES
    weighed        \* an entry's owner and repo lengths, and the cost it was given

wtvars == <<weighed>>

\* what the rate limiter and the GitHub client never touch
othervars == <<ccvars, svvars, tbvars, wtvars, wtvars>>

vars == <<rlvars, ghvars, othervars>>

RECURSIVE SumOver(_, _)
\* the sum of f[x] for x in S
SumOver(f, S) ==
    IF S = {} THEN 0
    ELSE LET x == CHOOSE y \in S : TRUE IN f[x] + SumOver(f, S \ {x})

Min(a, b) == IF a <= b THEN a ELSE b
Max(a, b) == IF a >= b THEN a ELSE b

BucketIds == 0..Max(MaxChecks, MaxSeqChecks)
GlobalBucket == 0
NoIp == "none"

\* max(1, requests_per_minute / 60): the tokens added per elapsed second
RefillRate(per_minute) == Max(1, per_minute \div 60)

\* TokenBucket::new(max_tokens, refill_rate) at time t (history: credited, the
\* sum of the tokens_to_add of the refills so far, and made_at, the time t)
NewBucket(max_tokens, refill_rate, t) ==
    [tokens |-> max_tokens, max_tokens |-> max_tokens,
     refill_rate |-> refill_rate, last_refill |-> t, locked |-> FALSE,
     credited |-> 0, made_at |-> t]

\* a bucket identity not yet handed out
Unallocated == [tokens |-> 0, max_tokens |-> 0, refill_rate |-> 0,
                last_refill |-> 0, locked |-> FALSE, credited |-> 0,
                made_at |-> 0]

\* now.duration_since(*last_refill): saturates at zero
Elapsed(t, last) == IF t >= last THEN t - last ELSE 0

\* elapsed.as_secs(): whole seconds
SecondsPassed(elapsed) == elapsed \div TicksPerSec

\* seconds_passed * self.refill_rate
TokensToAdd(elapsed, rate) == SecondsPassed(elapsed) * rate

\* elapsed >= 1 s and tokens_to_add > 0: the refill stores a new count
RefillDue(elapsed, rate) ==
    elapsed >= TicksPerSec /\ TokensToAdd(elapsed, rate) > 0

\* mutant: the sum is stored without the cap
NewTokensUncapped(current_tokens, tokens_to_add, max_tokens) ==
    current_tokens + tokens_to_add

\* (current_tokens + tokens_to_add).min(self.max_tokens)
NewTokens(current_tokens, tokens_to_add, max_tokens) ==
    Min(current_tokens + tokens_to_add, max_tokens)

\* mutant: the last token is never handed out
CanConsumeOffByOne(current_tokens) == current_tokens > 1

\* if current_tokens > 0 { compare_exchange(current, current - 1) } else false
CanConsume(current_tokens) == current_tokens > 0

\* mutant: every client is looked up under one key
BucketKeyShared(ip) == "A"

\* the key of ip_buckets a request from ip uses: the IpAddr itself
BucketKey(ip) == ip

\* ip_buckets.get(&key) finds an entry: present and younger than time_to_live
Live(key) ==
    /\ ip_buckets[key] # 0
    /\ now - inserted_at[key] < config.ip_memory_duration * TicksPerSec

IdleCall == [pc |-> "idle", phase |-> "none", ip |-> NoIp, bucket |-> 0,
             t |-> 0, cur |-> 0, result |-> "none", k |-> 0,
             ip_touched |-> FALSE, global_denied |-> FALSE]

IdleBg == [pc |-> "wait", next |-> 0, bucket |-> 0, t |-> 0, cur |-> 0,
           rest |-> {}]

ZeroPerIp == [ip \in IPs |-> 0]

TotalStarted == SumOver(started, IPs)

\* RateLimiter::new(config), for the capacities in caps_g and caps_c and the
\* ip_memory_duration in durations
RateLimiterNew(caps_g, caps_c, durations) ==
    /\ now = 0
    /\ \E g \in caps_g, c \in caps_c, d \in durations :
          /\ config = [global_requests_per_minute |-> g,
                       per_ip_requests_per_minute |-> c,
                       ip_memory_duration |-> d,
                       refill_interval |-> 1]
          /\ buckets = [b \in BucketIds |->
                          IF b = GlobalBucket
                          THEN NewBucket(g, RefillRate(g), 0)
                          ELSE Unallocated]
    /\ next_bucket = 1
    /\ ip_buckets = ZeroPerIp
    /\ inserted_at = ZeroPerIp
    /\ call = [p \in Callers |-> IdleCall]
    /\ bg = IdleBg
    /\ started = ZeroPerIp
    /\ allowed = ZeroPerIp
    /\ ip_denied = ZeroPerIp
    /\ refilled = FALSE
    /\ last_check = ZeroPerIp


---------------------------------------------------------------------------
(* TokenBucket::refill and TokenBucket::try_consume, step by step.  A     *)
(* refill reads the clock, takes the write lock of last_refill, loads the *)
(* count, stores the new count and the timestamp, and drops the lock.     *)
(* try_consume is refill, then the load / compare-exchange loop.          *)

\* mutant: the store of the count without *last_refill = now
RefilledKeepsTimestamp(b, current_tokens, t) ==
    [b EXCEPT !.tokens = NewTokens(current_tokens,
                                   TokensToAdd(Elapsed(t, b.last_refill), b.refill_rate),
                                   b.max_tokens),
              !.locked = FALSE,
              !.credited = @ + TokensToAdd(Elapsed(t, b.last_refill),
                                           b.refill_rate)]

\* the bucket after refill's store: tokens and last_refill written, lock dropped
Refilled(b, current_tokens, t) ==
    [b EXCEPT !.tokens = NewTokens(current_tokens,
                                   TokensToAdd(Elapsed(t, b.last_refill), b.refill_rate),
                                   b.max_tokens),
              !.last_refill = t,
              !.locked = FALSE,
              !.credited = @ + TokensToAdd(Elapsed(t, b.last_refill),
                                           b.refill_rate)]

\* mutant: a global denial is noted but the per-IP check is made all the same
AfterTryConsumeIgnoreDeny(c, ok) ==
    IF c.phase = "global"
    THEN [c EXCEPT !.pc = "ip_get", !.global_denied = ~ok]
    ELSE IF ok /\ ~c.global_denied
         THEN [c EXCEPT !.pc = "done", !.result = "Allowed", !.bucket = 0]
         ELSE IF c.global_denied
         THEN [c EXCEPT !.pc = "done", !.result = "GlobalLimitExceeded", !.bucket = 0]
         ELSE [c EXCEPT !.pc = "done", !.result = "IpLimitExceeded", !.bucket = 0]

\* check_rate_limit, after a try_consume returned ok: the caller's next position
AfterTryConsume(c, ok) ==
    IF c.phase = "global"
    THEN IF ok
         THEN [c EXCEPT !.pc = "ip_get"]
         ELSE [c EXCEPT !.pc = "done", !.result = "GlobalLimitExceeded",
                        !.global_denied = TRUE]
    ELSE IF ok
         THEN [c EXCEPT !.pc = "done", !.result = "Allowed", !.bucket = 0]
         ELSE [c EXCEPT !.pc = "done", !.result = "IpLimitExceeded", !.bucket = 0]

\* the history counters after caller p's record becomes c
Count(c) ==
    /\ allowed' = IF c.result = "Allowed"
                  THEN [allowed EXCEPT ![c.ip] = @ + 1] ELSE allowed
    /\ ip_denied' = IF c.result = "IpLimitExceeded"
                    THEN [ip_denied EXCEPT ![c.ip] = @ + 1] ELSE ip_denied

\* check_rate_limit(ip) is called: global_bucket.try_consume() begins, and its
\* refill reads the clock
CheckStart(p, ip) ==
    /\ call[p].pc \in {"idle", "done"}
    /\ call' = [call EXCEPT ![p] =
                  [IdleCall EXCEPT !.pc = "lock", !.phase = "global", !.ip = ip,
                                   !.bucket = GlobalBucket, !.t = now,
                                   !.k = started[ip] + 1]]
    /\ started' = [started EXCEPT ![ip] = @ + 1]
    /\ UNCHANGED <<ghvars, othervars, now, config, last_check, buckets, next_bucket, ip_buckets, inserted_at,
                   bg, allowed, ip_denied, refilled>>

\* refill: last_refill.write().await succeeds; the elapsed time decides
RefillLock(p) ==
    LET c == call[p]
        b == buckets[c.bucket]
    IN  /\ c.pc = "lock"
        /\ ~b.locked
        /\ IF RefillDue(Elapsed(c.t, b.last_refill), b.refill_rate)
           THEN /\ buckets' = [buckets EXCEPT ![c.bucket].locked = TRUE]
                /\ call' = [call EXCEPT ![p].pc = "store", ![p].cur = b.tokens]
           ELSE /\ buckets' = buckets
                /\ call' = [call EXCEPT ![p].pc = "load", ![p].t = 0]
        /\ UNCHANGED <<ghvars, othervars, now, config, last_check, next_bucket, ip_buckets, inserted_at, bg,
                       started, allowed, ip_denied, refilled>>

\* refill: tokens.store(new_tokens); *last_refill = now; the lock is dropped
RefillStore(p) ==
    LET c == call[p]
    IN  /\ c.pc = "store"
        /\ buckets' = [buckets EXCEPT ![c.bucket] = Refilled(@, c.cur, c.t)]
        /\ call' = [call EXCEPT ![p].pc = "load", ![p].cur = 0, ![p].t = 0]
        /\ refilled' = TRUE
        /\ UNCHANGED <<ghvars, othervars, now, config, last_check, next_bucket, ip_buckets, inserted_at, bg,
                       started, allowed, ip_denied>>

\* try_consume: tokens.load(); zero tokens return false
ConsumeLoad(p) ==
    LET c == call[p]
        current_tokens == buckets[c.bucket].tokens
    IN  /\ c.pc = "load"
        /\ IF CanConsume(current_tokens)
           THEN /\ call' = [call EXCEPT ![p].pc = "cas", ![p].cur = current_tokens]
                /\ UNCHANGED <<allowed, ip_denied>>
           ELSE /\ call' = [call EXCEPT ![p] = AfterTryConsume(c, FALSE)]
                /\ Count(AfterTryConsume(c, FALSE))
        /\ UNCHANGED <<ghvars, othervars, now, config, last_check, buckets, next_bucket, ip_buckets,
                       inserted_at, bg, started, refilled>>

\* try_consume: compare_exchange_weak(current, current - 1) succeeds
ConsumeCasOk(p) ==
    LET c == call[p]
    IN  /\ c.pc = "cas"
        /\ buckets[c.bucket].tokens = c.cur
        /\ buckets' = [buckets EXCEPT ![c.bucket].tokens = c.cur - 1]
        /\ call' = [call EXCEPT ![p] = [AfterTryConsume(c, TRUE) EXCEPT !.cur = 0]]
        /\ Count(AfterTryConsume(c, TRUE))
        /\ UNCHANGED <<ghvars, othervars, now, config, last_check, next_bucket, ip_buckets, inserted_at, bg,
                       started, refilled>>

\* try_consume: compare_exchange_weak fails (the count changed, or spuriously)
ConsumeCasFail(p) ==
    LET c == call[p]
    IN  /\ c.pc = "cas"
        /\ call' = [call EXCEPT ![p].pc = "load", ![p].cur = 0]
        /\ UNCHANGED <<ghvars, othervars, now, config, last_check, buckets, next_bucket, ip_buckets,
                       inserted_at, bg, started, allowed, ip_denied, refilled>>

\* get_or_create_ip_bucket: ip_buckets.get(&ip)
GetIpBucket(p) ==
    LET c == call[p]
    IN  /\ c.pc = "ip_get"
        /\ IF Live(BucketKey(c.ip))
           THEN call' = [call EXCEPT ![p].pc = "lock", ![p].phase = "ip",
                                     ![p].bucket = ip_buckets[BucketKey(c.ip)],
                                     ![p].t = now, ![p].ip_touched = TRUE]
           ELSE call' = [call EXCEPT ![p].pc = "ip_insert",
                                     ![p].ip_touched = TRUE]
        /\ last_check' = [last_check EXCEPT ![c.ip] = now]
        /\ UNCHANGED <<ghvars, othervars, now, config, buckets, next_bucket, ip_buckets,
                       inserted_at, bg, started, allowed, ip_denied, refilled>>

\* get_or_create_ip_bucket: TokenBucket::new, ip_buckets.insert(ip, bucket)
InsertIpBucket(p) ==
    LET c == call[p]
        per_ip == config.per_ip_requests_per_minute
    IN  /\ c.pc = "ip_insert"
        /\ buckets' = [buckets EXCEPT ![next_bucket] =
                          NewBucket(per_ip, RefillRate(per_ip), now)]
        /\ ip_buckets' = [ip_buckets EXCEPT ![BucketKey(c.ip)] = next_bucket]
        /\ inserted_at' = [inserted_at EXCEPT ![BucketKey(c.ip)] = now]
        /\ next_bucket' = next_bucket + 1
        /\ call' = [call EXCEPT ![p].pc = "lock", ![p].phase = "ip",
                                ![p].bucket = next_bucket, ![p].t = now]
        /\ UNCHANGED <<ghvars, othervars, now, config, last_check, bg, started, allowed, ip_denied, refilled>>

\* one step of caller p inside check_rate_limit
CallerStep(p) ==
    \/ RefillLock(p)
    \/ RefillStore(p)
    \/ ConsumeLoad(p)
    \/ ConsumeCasOk(p)
    \/ ConsumeCasFail(p)
    \/ GetIpBucket(p)
    \/ InsertIpBucket(p)


---------------------------------------------------------------------------
(* start_refill_task: every refill_interval the task refills the global   *)
(* bucket and then every bucket ip_buckets.iter() yields.                  *)

\* the entries ip_buckets.iter() yields: the live ones
LiveBuckets == {ip_buckets[ip] : ip \in {i \in IPs : Live(i)}}

\* the task goes on after a refill: the next bucket of the iteration (its
\* refill reads the clock), or interval.tick().await when none is left
BgContinue(rest) ==
    IF rest = {}
    THEN bg' = [bg EXCEPT !.pc = "wait", !.bucket = 0, !.t = 0, !.cur = 0,
                          !.rest = {}]
    ELSE \E b \in rest :
            bg' = [bg EXCEPT !.pc = "lock", !.bucket = b, !.t = now, !.cur = 0,
                             !.rest = rest \ {b}]

\* the buckets still to refill once the refill of bg.bucket is over
BgRest == IF bg.bucket = GlobalBucket THEN LiveBuckets ELSE bg.rest

\* interval.tick().await returns; global_bucket.refill() reads the clock
BgTick ==
    /\ bg.pc = "wait"
    /\ now >= bg.next
    /\ bg' = [bg EXCEPT !.pc = "lock", !.bucket = GlobalBucket, !.t = now,
                        !.next = @ + config.refill_interval * TicksPerSec]
    /\ UNCHANGED <<ghvars, othervars, now, config, last_check, buckets, next_bucket, ip_buckets, inserted_at,
                   call, started, allowed, ip_denied, refilled>>

\* bucket.refill(): the write lock is taken; the elapsed time decides
BgRefillLock ==
    LET b == buckets[bg.bucket]
    IN  /\ bg.pc = "lock"
        /\ ~b.locked
        /\ IF RefillDue(Elapsed(bg.t, b.last_refill), b.refill_rate)
           THEN /\ buckets' = [buckets EXCEPT ![bg.bucket].locked = TRUE]
                /\ bg' = [bg EXCEPT !.pc = "store", !.cur = b.tokens]
           ELSE /\ buckets' = buckets
                /\ BgContinue(BgRest)
        /\ UNCHANGED <<ghvars, othervars, now, config, last_check, next_bucket, ip_buckets, inserted_at, call,
                       started, allowed, ip_denied, refilled>>

\* bucket.refill(): the store of the count and of the timestamp
BgRefillStore ==
    /\ bg.pc = "store"
    /\ buckets' = [buckets EXCEPT ![bg.bucket] = Refilled(@, bg.cur, bg.t)]
    /\ BgContinue(BgRest)
    /\ refilled' = TRUE
    /\ UNCHANGED <<ghvars, othervars, now, config, last_check, next_bucket, ip_buckets, inserted_at, call,
                   started, allowed, ip_denied>>

BgStep == BgTick \/ BgRefillLock \/ BgRefillStore

\* time passes
Tick ==
    /\ now' = now + 1
    /\ UNCHANGED <<ghvars, othervars, config, last_check, buckets, next_bucket, ip_buckets, inserted_at, call,
                   bg, started, allowed, ip_denied, refilled>>

---------------------------------------------------------------------------
(* RateLimiter::status, called by the /status and /health handlers. *)

\* the Check calls that got their token of the global bucket: those that
\* returned Allowed or IpLimitExceeded and those now past the global check
PassedGlobal ==
    SumOver(allowed, IPs) + SumOver(ip_denied, IPs)
        + Cardinality({p \in Callers :
                          /\ call[p].pc \notin {"idle", "done"}
                          /\ \/ call[p].phase = "ip"
                             \/ call[p].pc \in {"ip_get", "ip_insert"}})

\* no status() has returned yet
NoStatus == [taken |-> FALSE, global_tokens_remaining |-> 0,
             global_tokens_max |-> 0, active_ip_count |-> 0,
             passed |-> 0, refilled |-> FALSE]

\* the entries ip_buckets holds, expired or not
PresentIps == {ip \in IPs : ip_buckets[ip] # 0}

\* RateLimitStatus of status(); weighted_size() lags behind the inserts and
\* the expirations, so it is any count up to the entries present; passed and
\* refilled note the history at the moment of the call
RateLimitStatus(active_ips) ==
    [taken |-> TRUE,
     global_tokens_remaining |-> buckets[GlobalBucket].tokens,
     global_tokens_max |-> config.global_requests_per_minute,
     active_ip_count |-> active_ips,
     passed |-> PassedGlobal,
     refilled |-> refilled]

\* a status() that takes a token of the global bucket when it reads it
StatusTakesToken ==
    /\ \E active_ips \in 0..Cardinality(PresentIps) :
          last_status' = RateLimitStatus(active_ips)
    /\ buckets' = [buckets EXCEPT ![GlobalBucket].tokens =
                      IF @ > 0 THEN @ - 1 ELSE @]
    /\ UNCHANGED <<ghvars, ccvars, tbvars, wtvars, req, work, now, config, last_check, next_bucket,
                   ip_buckets, inserted_at, call, bg, started, allowed,
                   ip_denied, refilled>>

\* status(): global_bucket.current_tokens(), ip_buckets.weighted_size()
Status ==
    /\ \E active_ips \in 0..Cardinality(PresentIps) :
          last_status' = RateLimitStatus(active_ips)
    /\ UNCHANGED <<rlvars, ghvars, ccvars, tbvars, wtvars, req, work>>

---------------------------------------------------------------------------
(* GitHubClient (src/src/github.rs).  The circuit breaker is the failsafe  *)
(* crate's StateMachine with the policy GitHubClient::new configures:      *)
(* success_rate_over_time_window(0.8, 5, 30 s) or_else                     *)
(* consecutive_failures(5), both with a full-jittered backoff.  Its clock  *)
(* is abstracted to two facts: the 30 s window has elapsed, and the        *)
(* backoff of the Open state has elapsed.                                  *)

DEFAULT_API_RETRIES == 3
\* consecutive_failures(5, ..)
ConsecutiveFailuresLimit == 5
\* success_rate_over_time_window(0.8, 5, ..): the minimum request count
MinRequestThreshold == 5

Keys == {"a/b", "c/d"}
\* the repository a single caller asks for again and again
OneKey == {"a/b"}
Fetchers == {1, 2}

\* GitHubError
NotFound == [kind |-> "NotFound", code |-> 0]
RateLimited == [kind |-> "RateLimited", code |-> 0]
NetworkError == [kind |-> "NetworkError", code |-> 0]
CircuitBreakerOpen == [kind |-> "CircuitBreakerOpen", code |-> 0]
InvalidFormat == [kind |-> "InvalidFormat", code |-> 0]
AuthError == [kind |-> "AuthError", code |-> 0]
ApiError(code) == [kind |-> "ApiError", code |-> code]
NoError == [kind |-> "none", code |-> 0]

\* Result<Repository>
NoData == "none"
Ok(data) == [tag |-> "Ok", data |-> data, error |-> NoError]
Err(error) == [tag |-> "Err", data |-> NoData, error |-> error]
NoResult == [tag |-> "none", data |-> NoData, error |-> NoError]

\* CacheEntry, and Absent for a key cache.get() does not find
Absent == [variant |-> "Absent", data |-> NoData, error |-> NoError, remaining |-> 0]
Valid(data) == [variant |-> "Valid", data |-> data, error |-> NoError, remaining |-> 0]
Invalid(error, remaining) ==
    [variant |-> "Invalid", data |-> NoData, error |-> error, remaining |-> remaining]
InvalidExhausted(error) ==
    [variant |-> "InvalidExhausted", data |-> NoData, error |-> error, remaining |-> 0]

\* what the upstream does with one request: status 0 is a transport failure
\* (send() fails); a 200 carries a public repository, a private one, or a body
\* that does not deserialize
Response(status, body) == [status |-> status, body |-> body]
NoResponse == Response(0, "unsent")
Responses ==
    {Response(0, "none"),
     Response(200, "d1"), Response(200, "d2"),
     Response(200, "private"), Response(200, "malformed"),
     Response(400, "none"), Response(401, "none"), Response(403, "none"),
     Response(404, "none"), Response(500, "none")}

\* fetch_repository_info without the repo.private check of lines 273-278
FetchResultLeaksPrivate(resp) ==
    IF resp.status = 0 THEN Err(NetworkError)
    ELSE IF resp.status >= 200 /\ resp.status <= 299
    THEN IF resp.body = "malformed" THEN Err(NetworkError)
         ELSE Ok(resp.body)
    ELSE IF resp.status = 404 THEN Err(NotFound)
    ELSE IF resp.status = 403 THEN Err(RateLimited)
    ELSE Err(ApiError(resp.status))

\* fetch_repository_info with an arm 401 => GitHubError::AuthError
FetchResultAuthError(resp) ==
    IF resp.status = 0 THEN Err(NetworkError)
    ELSE IF resp.status >= 200 /\ resp.status <= 299
    THEN IF resp.body = "malformed" THEN Err(NetworkError)
         ELSE IF resp.body = "private" THEN Err(NotFound)
         ELSE Ok(resp.body)
    ELSE IF resp.status = 404 THEN Err(NotFound)
    ELSE IF resp.status = 403 THEN Err(RateLimited)
    ELSE IF resp.status = 401 THEN Err(AuthError)
    ELSE Err(ApiError(resp.status))

\* fetch_repository_info: the result for an upstream response
FetchResult(resp) ==
    IF resp.status = 0 THEN Err(NetworkError)
    ELSE IF resp.status >= 200 /\ resp.status <= 299
    THEN IF resp.body = "malformed" THEN Err(NetworkError)
         ELSE IF resp.body = "private" THEN Err(NotFound)
         ELSE Ok(resp.body)
    ELSE IF resp.status = 404 THEN Err(NotFound)
    ELSE IF resp.status = 403 THEN Err(RateLimited)
    ELSE Err(ApiError(resp.status))

\* should_trigger_circuit_breaker with every ApiError counted as a failure
ShouldTriggerAnyApiError(error) ==
    error.kind \in {"NetworkError", "RateLimited", "ApiError"}

\* should_trigger_circuit_breaker
ShouldTriggerCircuitBreaker(error) ==
    CASE error.kind = "NetworkError" -> TRUE
      [] error.kind = "RateLimited" -> TRUE
      [] error.kind = "ApiError" -> error.code >= 500
      [] error.kind = "NotFound" -> FALSE
      [] error.kind = "InvalidFormat" -> FALSE
      [] error.kind = "AuthError" -> FALSE
      [] error.kind = "CircuitBreakerOpen" -> FALSE

\* handle_github_error with a retry count that is never decremented
NewCountStuck(entry) ==
    IF entry.variant = "Invalid"
    THEN entry.remaining
    ELSE DEFAULT_API_RETRIES

\* handle_github_error: count.saturating_sub(1) of an Invalid entry, else the default
NewCount(entry) ==
    IF entry.variant = "Invalid"
    THEN Max(entry.remaining - 1, 0)
    ELSE DEFAULT_API_RETRIES

\* handle_github_error without the new_count == 0 arm of lines 333-336
RetryEntryNeverExhausts(error, new_count) == Invalid(error, new_count)

\* handle_github_error: the entry stored for an error other than NotFound
RetryEntry(error, new_count) ==
    IF new_count = 0 THEN InvalidExhausted(error) ELSE Invalid(error, new_count)

\* handle_github_error without the NotFound arm of lines 298-314
HandleGithubErrorRetryNotFound(entry, error) ==
    RetryEntry(error, NewCount(entry))

\* handle_github_error: the entry stored for error, given the entry cache.get() found
HandleGithubError(entry, error) ==
    IF error.kind = "NotFound"
    THEN InvalidExhausted(error)
    ELSE RetryEntry(error, NewCount(entry))

(* The circuit breaker *)

NewBreaker == [state |-> "Closed", consecutive_failures |-> 0, requests |-> 0,
               window_elapsed |-> FALSE, backoff_elapsed |-> FALSE]

\* is_call_permitted of a breaker that admits every call
AlwaysPermitted(br) == TRUE

\* StateMachine::is_call_permitted: the answer
IsCallPermitted(br) == br.state # "Open" \/ br.backoff_elapsed

\* is_call_permitted of a breaker that closes as soon as the backoff is over
AfterIsCallPermittedCloses(br) ==
    IF br.state = "Open" /\ br.backoff_elapsed
    THEN [br EXCEPT !.state = "Closed"]
    ELSE br

\* StateMachine::is_call_permitted: Open becomes HalfOpen once the backoff is over
AfterIsCallPermitted(br) ==
    IF br.state = "Open" /\ br.backoff_elapsed
    THEN [br EXCEPT !.state = "HalfOpen"]
    ELSE br

\* FailurePolicy::revived of both policies (reset on HalfOpen -> Closed)
Revived(br) == [br EXCEPT !.state = "Closed", !.consecutive_failures = 0,
                          !.requests = 0, !.window_elapsed = FALSE,
                          !.backoff_elapsed = FALSE]

\* StateMachine::on_success: HalfOpen closes; the policies record the success
OnSuccess(br) ==
    LET b == IF br.state = "HalfOpen" THEN Revived(br) ELSE br
    IN  [b EXCEPT !.consecutive_failures = 0,
                  !.requests = Min(@ + 1, MinRequestThreshold)]

\* the success-rate policy can mark the breaker dead on this failure: the
\* window has elapsed and it has seen enough requests, this one included
SuccessRateCanTrip(br) ==
    br.window_elapsed /\ br.requests + 1 >= MinRequestThreshold

\* transit_to_open
TransitToOpen(br) == [br EXCEPT !.state = "Open", !.backoff_elapsed = FALSE]

\* StateMachine::on_error.  rate_low: the success rate is below 0.8 now.
\* mark_dead_on_failure asks the success-rate policy first and the
\* consecutive-failures policy only if that one does not trip.
OnError(br, rate_low) ==
    IF br.state = "Open" THEN br
    ELSE LET sr_trips == rate_low /\ SuccessRateCanTrip(br)
             cf == IF sr_trips THEN br.consecutive_failures
                   ELSE Min(br.consecutive_failures + 1, ConsecutiveFailuresLimit)
             trips == sr_trips \/ cf >= ConsecutiveFailuresLimit
             b == [br EXCEPT !.consecutive_failures = cf,
                             !.requests = Min(@ + 1, MinRequestThreshold)]
         IN  IF trips \/ br.state = "HalfOpen" THEN TransitToOpen(b) ELSE b

\* get_repository_info with an error that does not trigger the breaker ending
\* the run of consecutive failures
SignalErrorResetsRun(br, error, rate_low) ==
    IF ShouldTriggerCircuitBreaker(error)
    THEN AfterIsCallPermitted(OnError(br, rate_low))
    ELSE [br EXCEPT !.consecutive_failures = 0]

\* get_repository_info, the error branch: the breaker after the signal (if the
\* error triggers it) and the is_call_permitted() that follows it
SignalError(br, error, rate_low) ==
    IF ShouldTriggerCircuitBreaker(error)
    THEN AfterIsCallPermitted(OnError(br, rate_low))
    ELSE br

(* get_repository_info, step by step: the cache lookup, the breaker's      *)
(* admission, the upstream request, and the bookkeeping of its outcome.    *)

IdleFetch == [pc |-> "idle", key |-> "none", pre |-> Absent,
              pre_breaker |-> NewBreaker, resp |-> NoResponse, res |-> NoResult,
              new_count |-> 0, ret |-> NoResult, signal |-> "none", k |-> 0,
              attempts |-> 0, signals |-> 0]

\* streak: the failures since the last success that are network errors, rate
\* limits or 5xx answers; pure: all of them were network errors; broke: the
\* latest other failure among them
NoRun == [error |-> NoError, len |-> 0, streak |-> 0, pure |-> TRUE,
          broke |-> NoError]

\* a network error, a rate limit or a 5xx answer
CountsAsFailure(error) ==
    \/ error.kind \in {"NetworkError", "RateLimited"}
    \/ error.kind = "ApiError" /\ error.code >= 500

TotalFetches == SumOver(fetch_count, Keys)

\* GitHubClient::new
GitHubClientNew ==
    /\ cache = [key \in Keys |-> Absent]
    /\ breaker = NewBreaker
    /\ fetch = [p \in Fetchers |-> IdleFetch]
    /\ fetch_count = [key \in Keys |-> 0]
    /\ upstream_calls = [key \in Keys |-> 0]
    /\ only500 = TRUE
    /\ expired = FALSE
    /\ run = NoRun

\* the run of upstream failures after one more upstream result
NextRun(res) ==
    IF res.tag = "Ok" THEN NoRun
    ELSE LET r == IF CountsAsFailure(res.error)
                  THEN [run EXCEPT
                          !.streak = Min(@ + 1, ConsecutiveFailuresLimit),
                          !.pure = @ /\ res.error = NetworkError]
                  ELSE [run EXCEPT
                          !.broke = IF run.streak > 0 THEN res.error ELSE @]
         IN  IF run.error = res.error
             THEN [r EXCEPT !.len = Min(@ + 1, ConsecutiveFailuresLimit)]
             ELSE [r EXCEPT !.error = res.error, !.len = 1]

\* get_repository_info with the breaker asked before the cache
GetRepositoryInfoBreakerFirst(p, key) ==
    LET entry == cache[key]
        f == [IdleFetch EXCEPT !.key = key, !.pre = entry,
                               !.pre_breaker = breaker,
                               !.k = fetch_count[key] + 1]
    IN  /\ fetch[p].pc \in {"idle", "done"}
        /\ fetch_count' = [fetch_count EXCEPT ![key] = @ + 1]
        /\ fetch' = [fetch EXCEPT ![p] =
              CASE ~IsCallPermitted(breaker) ->
                     [f EXCEPT !.pc = "done", !.ret = Err(CircuitBreakerOpen)]
                [] entry.variant = "Valid" ->
                     [f EXCEPT !.pc = "done", !.ret = Ok(entry.data)]
                [] entry.variant = "InvalidExhausted" ->
                     [f EXCEPT !.pc = "done", !.ret = Err(entry.error)]
                [] OTHER -> [f EXCEPT !.pc = "breaker"]]
        /\ UNCHANGED <<rlvars, othervars, cache, breaker, upstream_calls, only500, expired, run>>

\* get_repository_info(repo_path) is called: cache.get(repo_path)
GetRepositoryInfo(p, key) ==
    LET entry == cache[key]
        f == [IdleFetch EXCEPT !.key = key, !.pre = entry,
                               !.pre_breaker = breaker,
                               !.k = fetch_count[key] + 1]
    IN  /\ fetch[p].pc \in {"idle", "done"}
        /\ fetch_count' = [fetch_count EXCEPT ![key] = @ + 1]
        /\ fetch' = [fetch EXCEPT ![p] =
              CASE entry.variant = "Valid" ->
                     [f EXCEPT !.pc = "done", !.ret = Ok(entry.data)]
                [] entry.variant = "InvalidExhausted" ->
                     [f EXCEPT !.pc = "done", !.ret = Err(entry.error)]
                [] OTHER -> [f EXCEPT !.pc = "breaker"]]
        /\ UNCHANGED <<rlvars, othervars, cache, breaker, upstream_calls, only500, expired, run>>

\* if !self.circuit_breaker.is_call_permitted() { return Err(CircuitBreakerOpen) }
CheckBreaker(p) ==
    /\ fetch[p].pc = "breaker"
    /\ breaker' = AfterIsCallPermitted(breaker)
    /\ fetch' = [fetch EXCEPT ![p] =
          IF IsCallPermitted(breaker)
          THEN [@ EXCEPT !.pc = "upstream"]
          ELSE [@ EXCEPT !.pc = "done", !.ret = Err(CircuitBreakerOpen)]]
    /\ UNCHANGED <<rlvars, othervars, cache, fetch_count, upstream_calls, only500, expired, run>>

\* self.fetch_repository_info(repo_path).await: the upstream answers resp
UpstreamCall(p, resp) ==
    LET res == FetchResult(resp)
    IN  /\ fetch[p].pc = "upstream"
        /\ fetch' = [fetch EXCEPT ![p].resp = resp, ![p].res = res,
                                  ![p].attempts = @ + 1,
                                  ![p].pc = IF res.tag = "Ok" THEN "ok_insert"
                                            ELSE "err_signal"]
        /\ upstream_calls' = [upstream_calls EXCEPT ![fetch[p].key] = @ + 1]
        /\ only500' = (only500 /\ resp.status = 500)
        /\ run' = NextRun(res)
        /\ UNCHANGED <<rlvars, othervars, cache, breaker, fetch_count, expired>>

\* Ok(repo) without the cache.insert of lines 198-203
StoreNothing(p) ==
    /\ fetch[p].pc = "ok_insert"
    /\ fetch' = [fetch EXCEPT ![p].pc = "ok_signal"]
    /\ UNCHANGED <<rlvars, othervars, cache, breaker, fetch_count, upstream_calls, only500, expired, run>>

\* Ok(repo): cache.insert(repo_path, Valid { data })
StoreValid(p) ==
    /\ fetch[p].pc = "ok_insert"
    /\ cache' = [cache EXCEPT ![fetch[p].key] = Valid(fetch[p].res.data)]
    /\ fetch' = [fetch EXCEPT ![p].pc = "ok_signal"]
    /\ UNCHANGED <<rlvars, othervars, breaker, fetch_count, upstream_calls, only500, expired, run>>

\* Ok(repo): circuit_breaker.on_success(); Ok(repo) is returned
SignalSuccess(p) ==
    /\ fetch[p].pc = "ok_signal"
    /\ breaker' = OnSuccess(breaker)
    /\ fetch' = [fetch EXCEPT ![p].pc = "done", ![p].signal = "success",
                              ![p].signals = @ + 1,
                              ![p].ret = fetch[p].res]
    /\ UNCHANGED <<rlvars, othervars, cache, fetch_count, upstream_calls, only500, expired, run>>

\* Err(error): circuit_breaker.on_error() if the error triggers the breaker
SignalFailure(p, rate_low) ==
    LET error == fetch[p].res.error
    IN  /\ fetch[p].pc = "err_signal"
        /\ breaker' = SignalError(breaker, error, rate_low)
        /\ fetch' = [fetch EXCEPT ![p].pc = "handle",
                        ![p].signals = IF ShouldTriggerCircuitBreaker(error)
                                       THEN @ + 1 ELSE @,
                        ![p].signal = IF ShouldTriggerCircuitBreaker(error)
                                      THEN "failure" ELSE "none"]
        /\ UNCHANGED <<rlvars, othervars, cache, fetch_count, upstream_calls, only500, expired, run>>

\* handle_github_error: NotFound is stored exhausted at once; for any other
\* error cache.get(repo_path) gives the new retry count
HandleErrorGet(p) ==
    LET f == fetch[p]
        error == f.res.error
    IN  /\ f.pc = "handle"
        /\ IF error.kind = "NotFound"
           THEN /\ cache' = [cache EXCEPT ![f.key] = HandleGithubError(@, error)]
                /\ fetch' = [fetch EXCEPT ![p].pc = "done", ![p].ret = Err(error)]
           ELSE /\ cache' = cache
                /\ fetch' = [fetch EXCEPT ![p].pc = "handle_insert",
                                          ![p].new_count = NewCount(cache[f.key])]
        /\ UNCHANGED <<rlvars, othervars, breaker, fetch_count, upstream_calls, only500, expired, run>>

\* handle_github_error followed by another attempt while retries remain
HandleErrorInsertRetry(p) ==
    LET f == fetch[p]
        error == f.res.error
    IN  /\ f.pc = "handle_insert"
        /\ cache' = [cache EXCEPT ![f.key] = RetryEntry(error, f.new_count)]
        /\ fetch' = [fetch EXCEPT ![p].pc = IF f.new_count > 0 THEN "upstream"
                                            ELSE "done",
                                  ![p].ret = Err(error), ![p].new_count = 0]
        /\ UNCHANGED <<rlvars, othervars, breaker, fetch_count, upstream_calls, only500, expired, run>>

\* handle_github_error: cache.insert(repo_path, cache_entry); Err(error) is returned
HandleErrorInsert(p) ==
    LET f == fetch[p]
        error == f.res.error
    IN  /\ f.pc = "handle_insert"
        /\ cache' = [cache EXCEPT ![f.key] = RetryEntry(error, f.new_count)]
        /\ fetch' = [fetch EXCEPT ![p].pc = "done", ![p].ret = Err(error),
                                  ![p].new_count = 0]
        /\ UNCHANGED <<rlvars, othervars, breaker, fetch_count, upstream_calls, only500, expired, run>>

\* one step of caller p inside get_repository_info
FetchStep(p) ==
    \/ CheckBreaker(p)
    \/ \E resp \in Responses : UpstreamCall(p, resp)
    \/ StoreValid(p)
    \/ SignalSuccess(p)
    \/ \E rate_low \in BOOLEAN : SignalFailure(p, rate_low)
    \/ HandleErrorGet(p)
    \/ HandleErrorInsert(p)

\* time_to_live(30 min): an entry, of whatever variant, expires
ExpireEntry(key) ==
    /\ cache[key] # Absent
    /\ cache' = [cache EXCEPT ![key] = Absent]
    /\ expired' = TRUE
    /\ UNCHANGED <<rlvars, othervars, breaker, fetch, fetch_count, upstream_calls, only500, run>>

\* the success-rate policy's 30 s window has passed since it was (re)started
WindowElapses ==
    /\ ~breaker.window_elapsed
    /\ breaker' = [breaker EXCEPT !.window_elapsed = TRUE]
    /\ UNCHANGED <<rlvars, othervars, cache, fetch, fetch_count, upstream_calls, only500, expired, run>>

\* the backoff of the Open state is over
BackoffElapses ==
    /\ breaker.state = "Open"
    /\ ~breaker.backoff_elapsed
    /\ breaker' = [breaker EXCEPT !.backoff_elapsed = TRUE]
    /\ UNCHANGED <<rlvars, othervars, cache, fetch, fetch_count, upstream_calls, only500, expired, run>>

\* get_repository_info run alone from (entry, br), the upstream answering resp:
\* what it returns, the entry and the breaker it leaves, the signal it sent
\* and whether it called the upstream
SeqFetch(entry, br, resp, rate_low) ==
    LET hit(ret) == [ret |-> ret, entry |-> entry, breaker |-> br,
                     signal |-> "none", upstream |-> FALSE]
        admitted == AfterIsCallPermitted(br)
        res == FetchResult(resp)
    IN  CASE entry.variant = "Valid" -> hit(Ok(entry.data))
          [] entry.variant = "InvalidExhausted" -> hit(Err(entry.error))
          [] OTHER ->
             IF ~IsCallPermitted(br) THEN hit(Err(CircuitBreakerOpen))
             ELSE IF res.tag = "Ok"
             THEN [ret |-> res, entry |-> Valid(res.data),
                   breaker |-> OnSuccess(admitted), signal |-> "success",
                   upstream |-> TRUE]
             ELSE [ret |-> res,
                   entry |-> HandleGithubError(entry, res.error),
                   breaker |-> SignalError(admitted, res.error, rate_low),
                   signal |-> IF ShouldTriggerCircuitBreaker(res.error)
                              THEN "failure" ELSE "none",
                   upstream |-> TRUE]

---------------------------------------------------------------------------
(* CacheManager (src/src/cache.rs).  get_or_create hashes the meaning and   *)
(* calls HybridCache::fetch of the foyer crate: a hit in memory returns the *)
(* entry; a caller that finds a fetch in flight for the key waits for its   *)
(* result; otherwise the caller's fetch looks on disk and, on a miss there, *)
(* runs create_fn; a value is written to both tiers, an error is handed to  *)
(* every waiter and nothing is stored.                                      *)

CacheCallers == {1, 2}
\* the random keys a process run can draw
Seeds == {1, 2}

\* RepositoryCard values; strings are sequences of characters
NoMeaning == [owner |-> <<>>, repo |-> <<>>, theme |-> <<>>]
Meanings ==
    {[owner |-> <<"a">>, repo |-> <<"b", "/", "c">>, theme |-> <<"d">>],
     [owner |-> <<"a">>, repo |-> <<"b">>, theme |-> <<"c", "/", "d">>],
     [owner |-> <<"x">>, repo |-> <<"y">>, theme |-> <<"d">>]}

\* RepositoryCard::cache_key: format!("{}:{}/{}:{}", owner, repo, theme, "v1")
CacheKey(m) ==
    m.owner \o <<":">> \o m.repo \o <<"/">> \o m.theme \o <<":">> \o <<"v", "1">>

\* the hasher RandomState::new().build_hasher() would give in this process run
RandomStateHasher == [k0 |-> process_seed, k1 |-> process_seed]

\* DefaultHasher::new(): SipHash with both keys zero
DefaultHasherNew == [k0 |-> 0, k1 |-> 0]

\* hasher.finish() after bytes were fed to the hasher: the digest, as a term
\* of the hasher's keys and the bytes (collisions of the 64-bit digest of
\* different byte strings are not represented)
Finish(hasher, bytes) == [k0 |-> hasher.k0, k1 |-> hasher.k1, bytes |-> bytes]

\* hash_cacheable
HashCacheable(item) == Finish(DefaultHasherNew, CacheKey(item))

\* every key a lookup can be made with
HashKeys ==
    {Finish([k0 |-> k, k1 |-> k], CacheKey(m)) : k \in {0} \cup Seeds, m \in Meanings}

\* CacheValue
NoValue == [image_data |-> 0, meaning |-> NoMeaning, access_count |-> 0]
CacheValue(image_data, meaning) ==
    [image_data |-> image_data, meaning |-> meaning, access_count |-> 1]

\* Result<CacheValue<T>>
CacheOk(value) == [tag |-> "Ok", value |-> value]
CacheErr == [tag |-> "Err", value |-> NoValue]
NoCacheResult == [tag |-> "none", value |-> NoValue]

\* no fetch of the key is in flight
NoFlight == [busy |-> FALSE, owner |-> 0, waiters |-> {}]

\* the key of no lookup
NoKey == [k0 |-> 0, k1 |-> 0, bytes |-> <<>>]

IdleGoc == [pc |-> "idle", meaning |-> NoMeaning, key |-> NoKey, fn |-> 0,
            state |-> "none", flight |-> 0, result |-> NoCacheResult,
            prev_served |-> NoValue]

\* CacheManager::new in a new process, the random keys drawn from seeds
CacheManagerNew(seeds) ==
    /\ l1 = [k \in HashKeys |-> NoValue]
    /\ l2 = [k \in HashKeys |-> NoValue]
    /\ inflight = [k \in HashKeys |-> NoFlight]
    /\ goc = [p \in CacheCallers |-> IdleGoc]
    /\ next_fn = 1
    /\ process_seed \in seeds
    /\ process_run = 1
    /\ gen_count = [k \in HashKeys |-> 0]
    /\ gen_log = {}
    /\ served = [k \in HashKeys |-> NoValue]
    /\ derived = {}
    /\ disturbed = FALSE


\* a tier that never finds an entry
LookupMiss(tier, key) == NoValue

\* the entry a tier holds for key
Lookup(tier, key) == tier[key]

\* a cache that never sees the fetch in flight for a key
NeverInFlight(key) == FALSE

\* a fetch for key is in flight (the key has a waiter list)
InFlight(key) == inflight[key].busy

\* the key is in neither tier
Dead(m1, m2, key) == m1[key] = NoValue /\ m2[key] = NoValue

\* the callers in who get result: the owner's fetch returns, the waiters are
\* notified
Complete(who, result, key) ==
    [q \in CacheCallers |->
        IF q \in who
        THEN [goc[q] EXCEPT !.pc = "done", !.result = result,
                            !.prev_served = served[key]]
        ELSE goc[q]]

\* get_or_create(meaning, create_fn) is called: key = hash_cacheable(&meaning)
GetOrCreate(p, m) ==
    LET key == HashCacheable(m)
    IN  /\ goc[p].pc \in {"idle", "done"}
        /\ goc' = [goc EXCEPT ![p] = [IdleGoc EXCEPT !.pc = "fetch",
                                         !.meaning = m, !.key = key,
                                         !.fn = next_fn]]
        /\ next_fn' = next_fn + 1
        /\ derived' = derived \cup
              {[meaning |-> m, key |-> key, run |-> process_run,
                seed |-> process_seed]}
        /\ UNCHANGED <<rlvars, ghvars, svvars, tbvars, wtvars, l1, l2, inflight, process_seed,
                       process_run, gen_count, gen_log, served, disturbed>>

\* inner.fetch(key, ..): the lookup in memory under the shard lock: a hit, a
\* fetch in flight to wait for, or a miss that makes the caller the fetcher
MemoryFetch(p) ==
    LET g == goc[p]
        hit == Lookup(l1, g.key)
    IN  /\ g.pc = "fetch"
        /\ IF hit # NoValue
           THEN /\ goc' = [Complete({p}, CacheOk(hit), g.key) EXCEPT
                              ![p].state = "hit"]
                /\ served' = [served EXCEPT ![g.key] = hit]
                /\ inflight' = inflight
           ELSE IF InFlight(g.key)
           THEN /\ goc' = [goc EXCEPT ![p].pc = "wait", ![p].state = "wait",
                                      ![p].flight = inflight[g.key].owner]
                /\ inflight' = [inflight EXCEPT ![g.key].waiters = @ \cup {p}]
                /\ served' = served
           ELSE /\ goc' = [goc EXCEPT ![p].pc = "load", ![p].state = "miss",
                                      ![p].flight = g.fn]
                /\ inflight' = [inflight EXCEPT ![g.key] =
                                   [busy |-> TRUE, owner |-> g.fn, waiters |-> {}]]
                /\ served' = served
        /\ UNCHANGED <<rlvars, ghvars, svvars, tbvars, wtvars, l1, l2, next_fn, process_seed,
                       process_run, gen_count, gen_log, derived, disturbed>>

\* the fetcher looks on disk: an entry there goes to memory and to the waiters
DiskLoad(p) ==
    LET g == goc[p]
        hit == Lookup(l2, g.key)
        who == {p} \cup (IF InFlight(g.key) THEN inflight[g.key].waiters ELSE {})
    IN  /\ g.pc = "load"
        /\ IF hit # NoValue
           THEN /\ goc' = [Complete(who, CacheOk(hit), g.key) EXCEPT
                              ![p].state = "disk"]
                /\ l1' = [l1 EXCEPT ![g.key] = hit]
                /\ served' = [served EXCEPT ![g.key] = hit]
                /\ inflight' = [inflight EXCEPT ![g.key] = NoFlight]
           ELSE /\ goc' = [goc EXCEPT ![p].pc = "create"]
                /\ UNCHANGED <<l1, served, inflight>>
        /\ UNCHANGED <<rlvars, ghvars, svvars, tbvars, wtvars, l2, next_fn, process_seed,
                       process_run, gen_count, gen_log, derived, disturbed>>

\* create_fn().await returns Ok(data): the CacheValue is built, stored in
\* memory and on disk, and handed to the waiters
CreateOk(p) ==
    LET g == goc[p]
        value == CacheValue(g.fn, g.meaning)
        who == {p} \cup (IF InFlight(g.key) THEN inflight[g.key].waiters ELSE {})
    IN  /\ g.pc = "create"
        /\ gen_count' = [gen_count EXCEPT ![g.key] = @ + 1]
        /\ gen_log' = gen_log \cup {g.fn}
        /\ l1' = [l1 EXCEPT ![g.key] = value]
        /\ l2' = [l2 EXCEPT ![g.key] = value]
        /\ goc' = Complete(who, CacheOk(value), g.key)
        /\ served' = [served EXCEPT ![g.key] = value]
        /\ inflight' = [inflight EXCEPT ![g.key] = NoFlight]
        /\ UNCHANGED <<rlvars, ghvars, svvars, tbvars, wtvars, next_fn, process_seed,
                       process_run, derived, disturbed>>


\* create_fn fails and an entry is stored for the key all the same
CreateErrStored(p) ==
    LET g == goc[p]
        who == {p} \cup (IF InFlight(g.key) THEN inflight[g.key].waiters ELSE {})
    IN  /\ g.pc = "create"
        /\ gen_count' = [gen_count EXCEPT ![g.key] = @ + 1]
        /\ gen_log' = gen_log \cup {g.fn}
        /\ goc' = Complete(who, CacheErr, g.key)
        /\ inflight' = [inflight EXCEPT ![g.key] = NoFlight]
        /\ l1' = [l1 EXCEPT ![g.key] = CacheValue(g.fn, g.meaning)]
        /\ disturbed' = TRUE
        /\ UNCHANGED <<rlvars, ghvars, svvars, tbvars, wtvars, l2, next_fn, process_seed,
                       process_run, served, derived>>

\* create_fn().await returns Err(e): the fetch fails with foyer::Error, the
\* waiter list of the key is dropped so that every waiter fails too, and
\* nothing is stored
CreateErr(p) ==
    LET g == goc[p]
        who == {p} \cup (IF InFlight(g.key) THEN inflight[g.key].waiters ELSE {})
    IN  /\ g.pc = "create"
        /\ gen_count' = [gen_count EXCEPT ![g.key] = @ + 1]
        /\ gen_log' = gen_log \cup {g.fn}
        /\ goc' = Complete(who, CacheErr, g.key)
        /\ inflight' = [inflight EXCEPT ![g.key] = NoFlight]
        /\ disturbed' = TRUE
        /\ UNCHANGED <<rlvars, ghvars, svvars, tbvars, wtvars, l1, l2, next_fn, process_seed,
                       process_run, served, derived>>

\* one step of caller p inside get_or_create
GocStep(p) ==
    \/ MemoryFetch(p)
    \/ DiskLoad(p)
    \/ CreateOk(p)
    \/ CreateErr(p)

\* the memory tier evicts an entry (the weighter's capacity is reached)
EvictMemory(key) ==
    /\ l1[key] # NoValue
    /\ l1' = [l1 EXCEPT ![key] = NoValue]
    /\ served' = IF Dead(l1', l2, key) THEN [served EXCEPT ![key] = NoValue]
                 ELSE served
    /\ disturbed' = TRUE
    /\ UNCHANGED <<rlvars, ghvars, svvars, tbvars, wtvars, l2, inflight, goc, next_fn,
                   process_seed, process_run, gen_count, gen_log, derived>>

\* the disk tier evicts an entry (disk_capacity is reached)
EvictDisk(key) ==
    /\ l2[key] # NoValue
    /\ l2' = [l2 EXCEPT ![key] = NoValue]
    /\ served' = IF Dead(l1, l2', key) THEN [served EXCEPT ![key] = NoValue]
                 ELSE served
    /\ disturbed' = TRUE
    /\ UNCHANGED <<rlvars, ghvars, svvars, tbvars, wtvars, l1, inflight, goc, next_fn,
                   process_seed, process_run, gen_count, gen_log, derived>>

\* the process ends and a new one starts: init(config) builds the cache over
\* the same disk_path; the memory tier and the calls in progress are gone
Restart ==
    /\ l1' = [k \in HashKeys |-> NoValue]
    /\ inflight' = [k \in HashKeys |-> NoFlight]
    /\ goc' = [p \in CacheCallers |-> IdleGoc]
    /\ process_seed' \in Seeds
    /\ process_run' = process_run + 1
    /\ served' = [k \in HashKeys |-> IF l2[k] = NoValue THEN NoValue ELSE served[k]]
    /\ disturbed' = TRUE
    /\ UNCHANGED <<rlvars, ghvars, svvars, tbvars, wtvars, l2, next_fn, gen_count, gen_log, derived>>

---------------------------------------------------------------------------
(* The request handler (src/src/server.rs): admission by the rate limiter, *)
(* then the repository lookup, then the SVG template and the encoder.      *)

\* the upstream calls made so far, over all repositories
TotalUpstream == SumOver(upstream_calls, Keys)

\* no request is being handled
IdleReq == [pc |-> "idle", ip |-> NoIp, key |-> "none", result |-> "none",
            status |-> 0, checks |-> 0, fetches |-> 0, work |-> 0,
            upstream |-> 0, cache |-> [key \in Keys |-> Absent],
            breaker |-> NewBreaker, rendered |-> {}, again |-> FALSE]

\* the server has started and no request has arrived
ServerNew ==
    /\ req = IdleReq
    /\ work = 0
    /\ last_status = NoStatus

\* impl From<GitHubError> for StatusCode; any other GlimError is a 500
StatusOf(error) ==
    CASE error.kind = "NotFound" -> 404
      [] error.kind = "RateLimited" -> 429
      [] error.kind = "ApiError" /\ error.code = 403 -> 429
      [] error.kind = "ApiError" /\ error.code = 401 -> 401
      [] error.kind = "ApiError" -> 502
      [] error.kind = "NetworkError" -> 502
      [] OTHER -> 500

\* the match on check_rate_limit's result lets every result but a global
\* denial through
AdmittedUnlessGlobal(result) == result # "GlobalLimitExceeded"

\* match check_rate_limit(client_ip).await: only Allowed continues
Admitted(result) == result = "Allowed"

\* a request for key arrives from ip: the handler is entered; the counters of
\* the rate limiter, of the GitHub client and of the rendering work are noted
\* (history: req.rendered, the keys whose image a request has returned, and
\* req.again, whether this request's key is one of them)
Handler(ip, key) ==
    /\ req.pc \in {"idle", "done"}
    /\ call[1].pc \in {"idle", "done"}
    /\ fetch[1].pc \in {"idle", "done"}
    /\ req' = [IdleReq EXCEPT !.pc = "check", !.ip = ip, !.key = key,
                              !.checks = TotalStarted,
                              !.fetches = TotalFetches,
                              !.upstream = TotalUpstream,
                              !.work = work, !.cache = cache,
                              !.breaker = breaker,
                              !.rendered = req.rendered,
                              !.again = key \in req.rendered]
    /\ UNCHANGED <<rlvars, ghvars, ccvars, tbvars, wtvars, work, last_status>>

\* state.rate_limiter.check_rate_limit(client_ip) is called
HandlerCheckRateLimit ==
    /\ req.pc = "check"
    /\ TotalStarted = req.checks
    /\ CheckStart(1, req.ip)

\* the steps of check_rate_limit the handler awaits
HandlerCheckStep ==
    /\ req.pc = "check"
    /\ CallerStep(1)

\* the match on the result: a denial returns 429 at once
HandlerMatch ==
    /\ req.pc = "check"
    /\ TotalStarted = req.checks + 1
    /\ call[1].pc = "done"
    /\ req' = IF Admitted(call[1].result)
              THEN [req EXCEPT !.pc = "fetch", !.result = call[1].result]
              ELSE [req EXCEPT !.pc = "done", !.result = call[1].result,
                               !.status = 429]
    /\ UNCHANGED <<rlvars, ghvars, ccvars, tbvars, wtvars, work, last_status>>

\* github::GITHUB_CLIENT.get_repository_info(&repo_path) is called
HandlerGetRepositoryInfo ==
    /\ req.pc = "fetch"
    /\ TotalFetches = req.fetches
    /\ GetRepositoryInfo(1, req.key)

\* the steps of get_repository_info the handler awaits
HandlerFetchStep ==
    /\ req.pc = "fetch"
    /\ \/ CheckBreaker(1)
       \/ \E resp \in Responses : UpstreamCall(1, resp)
       \/ StoreValid(1)
       \/ SignalSuccess(1)
       \/ \E rate_low \in BOOLEAN : SignalFailure(1, rate_low)
       \/ HandleErrorGet(1)
       \/ HandleErrorInsert(1)

\* .map_err(..)?: an error of get_repository_info is the response
HandlerFetched ==
    /\ req.pc = "fetch"
    /\ TotalFetches = req.fetches + 1
    /\ fetch[1].pc = "done"
    /\ req' = IF fetch[1].ret.tag = "Ok"
              THEN [req EXCEPT !.pc = "render"]
              ELSE [req EXCEPT !.pc = "done",
                               !.status = StatusOf(fetch[1].ret.error)]
    /\ UNCHANGED <<rlvars, ghvars, ccvars, tbvars, wtvars, work, last_status>>

\* format_svg_template(&svg_data)
FormatSvgTemplate ==
    /\ req.pc = "render"
    /\ work' = work + 1
    /\ req' = [req EXCEPT !.pc = "encode"]
    /\ UNCHANGED <<rlvars, ghvars, ccvars, tbvars, wtvars, last_status>>

\* encoder.encode(&formatted_svg, &mut buffer, scale): the image, or a 500
Encode(encoded) ==
    /\ req.pc = "encode"
    /\ work' = work + 1
    /\ req' = [req EXCEPT !.pc = "done",
                          !.status = IF encoded THEN 200 ELSE 500,
                          !.rendered = IF encoded THEN @ \cup {req.key}
                                       ELSE @]
    /\ UNCHANGED <<rlvars, ghvars, ccvars, tbvars, wtvars, last_status>>

---------------------------------------------------------------------------
(* The weighter CacheManager::new gives the hybrid cache (src/src/cache.rs): *)
(* cost = (10000.0 / (value_score + 1) as f32) as u32, at least 1.  The      *)
(* division is an f32 division: its result is the quotient rounded to 24     *)
(* significant bits (ties to even), and the cast to u32 drops the fraction.  *)

RECURSIVE BitLen(_)
\* the number of binary digits of k
BitLen(k) == IF k = 0 THEN 0 ELSE 1 + BitLen(k \div 2)

RECURSIVE FracOnes(_, _, _)
\* the first bits binary digits of the fraction r / n (r < n) are all 1
FracOnes(r, n, bits) ==
    IF bits = 0 THEN TRUE
    ELSE 2 * r >= n /\ FracOnes(2 * r - n, n, bits - 1)

\* (a as f32 / n as f32) as u32 for a, n below 2^24: the rounding of the
\* quotient reaches the next integer only if every kept digit of the
\* fraction and the first dropped one are 1
F32DivToU32(a, n) ==
    LET k == a \div n
    IN  IF FracOnes(a % n, n, 25 - BitLen(k)) THEN k + 1 ELSE k

\* value.meaning.owner().len() + value.meaning.repo().len()
ValueScore(owner_len, repo_len) == owner_len + repo_len

\* mutant: the cost without cost.max(1)
WeighterNoFloor(owner_len, repo_len) ==
    F32DivToU32(10000, ValueScore(owner_len, repo_len) + 1)

\* the closure given to with_weighter
Weighter(owner_len, repo_len) ==
    Max(F32DivToU32(10000, ValueScore(owner_len, repo_len) + 1), 1)

\* the lengths an entry is weighed with: short and long names
OwnerLens == 0..12 \cup {39, 5000}
RepoLens == 0..12 \cup {100, 4999, 5000, 9998, 9999, 10000, 30000}

NotWeighed == [pc |-> "none", owner_len |-> 0, repo_len |-> 0, cost |-> 0]

\* the cache weighs an entry on insertion
Weigh ==
    /\ weighed.pc = "new"
    /\ weighed' = [weighed EXCEPT !.pc = "weighed",
                      !.cost = Weighter(weighed.owner_len, weighed.repo_len)]
    /\ UNCHANGED <<rlvars, ghvars, ccvars, svvars, tbvars>>

---------------------------------------------------------------------------
(* TokenBucket at the width of its counters.  tokens, max_tokens,          *)
(* refill_rate, seconds_passed and tokens_to_add are u32.  A u32 is held   *)
(* as two 16-bit halves [hi, lo]; a product or sum before it is cut to 32  *)
(* bits has a third part, top, for what lies above bit 31.  The build's    *)
(* overflow checks decide what a u32 operation whose result has top > 0    *)
(* does: with them it panics, without them the low 32 bits are kept.       *)

Half == 65536

U32(hi, lo) == [hi |-> hi, lo |-> lo]

\* u32::MAX
U32Max == U32(Half - 1, Half - 1)

U32Zero == U32(0, 0)

U32Leq(a, b) == a.hi < b.hi \/ (a.hi = b.hi /\ a.lo <= b.lo)

\* a.min(b)
U32Min(a, b) == IF U32Leq(a, b) THEN a ELSE b

\* a - 1, for a > 0
U32Dec(a) == IF a.lo > 0 THEN U32(a.hi, a.lo - 1) ELSE U32(a.hi - 1, Half - 1)

\* the exact sum of two u32
WideAdd(a, b) ==
    LET lo == a.lo + b.lo
        hi == a.hi + b.hi + (lo \div Half)
    IN  [top |-> hi \div Half, hi |-> hi % Half, lo |-> lo % Half]

\* the exact product of a count of seconds n < 2^15 and a u32
WideMul(n, a) ==
    LET lo == n * a.lo
        hi == n * a.hi + (lo \div Half)
    IN  [top |-> hi \div Half, hi |-> hi % Half, lo |-> lo % Half]

\* the exact value does not fit a u32
Overflows(w) == w.top > 0

\* the low 32 bits
Wrap(w) == U32(w.hi, w.lo)

WideLeq(a, w) == w.top > 0 \/ U32Leq(a, Wrap(w))

\* std::cmp::max(1, per_minute / 60), on u32
U32RefillRate(per_minute) ==
    LET q == U32(per_minute.hi \div 60,
                 ((per_minute.hi % 60) * Half + per_minute.lo) \div 60)
    IN  IF q = U32Zero THEN U32(0, 1) ELSE q

\* no lone bucket is under study
NoBucket ==
    [pc |-> "none", overflow_checks |-> FALSE, tokens |-> U32Zero,
     max_tokens |-> U32Zero, refill_rate |-> U32Zero, last_refill |-> 0,
     at |-> 0, before |-> U32Zero, ret |-> "none"]

\* the capacities, the counts and the times since the last refill a lone
\* bucket is studied with
BucketCaps ==
    {U32(0, 1), U32(0, 59), U32(0, 60), U32(0, 120), U32(0, 300),
     U32(960, 0), U32Max}
BucketSeconds == {0, 1, 2, 60, 61, 4096}
BucketTimes ==
    {s * TicksPerSec + r : s \in BucketSeconds, r \in 0..(TicksPerSec - 1)}
BucketCounts(max_tokens) ==
    {U32Zero, U32(0, 1), U32Dec(max_tokens), max_tokens}

\* a bucket RateLimiter::new made with capacity max_tokens, holding tokens,
\* last refilled at 0, on which a call starts at time at
TokenBucketAt(overflow_checks, max_tokens, tokens, at) ==
    [pc |-> "new", overflow_checks |-> overflow_checks, tokens |-> tokens,
     max_tokens |-> max_tokens, refill_rate |-> U32RefillRate(max_tokens),
     last_refill |-> 0, at |-> at, before |-> tokens, ret |-> "none"]

\* seconds_passed * self.refill_rate, exactly
TokensToAddWide(b) == WideMul(SecondsPassed(Elapsed(b.at, b.last_refill)),
                              b.refill_rate)

\* current_tokens + tokens_to_add, exactly
SumWide(b) == WideAdd(b.tokens, Wrap(TokensToAddWide(b)))

\* a u32 operation of refill() overflows and the build checks for it
RefillPanics(b) ==
    /\ Elapsed(b.at, b.last_refill) >= TicksPerSec
    /\ b.overflow_checks
    /\ \/ Overflows(TokensToAddWide(b))
       \/ Wrap(TokensToAddWide(b)) # U32Zero /\ Overflows(SumWide(b))

\* refill(): the bucket after it
U32Refilled(b) ==
    IF /\ Elapsed(b.at, b.last_refill) >= TicksPerSec
       /\ Wrap(TokensToAddWide(b)) # U32Zero
    THEN [b EXCEPT !.tokens = U32Min(Wrap(SumWide(b)), b.max_tokens),
                   !.last_refill = b.at]
    ELSE b

\* self.refill().await, the first statement of try_consume()
TbRefill ==
    /\ tb.pc = "new"
    /\ tb' = IF RefillPanics(tb)
             THEN [tb EXCEPT !.pc = "panicked"]
             ELSE [U32Refilled(tb) EXCEPT !.pc = "refilled"]
    /\ UNCHANGED <<rlvars, ghvars, ccvars, svvars, wtvars>>

\* the load and compare-exchange of try_consume(), with no other caller
TbConsume ==
    /\ tb.pc = "refilled"
    /\ tb' = IF tb.tokens # U32Zero
             THEN [tb EXCEPT !.pc = "done", !.tokens = U32Dec(@),
                             !.ret = "true"]
             ELSE [tb EXCEPT !.pc = "done", !.ret = "false"]
    /\ UNCHANGED <<rlvars, ghvars, ccvars, svvars, wtvars>>

\* the seconds the refill task is followed on a lone bucket
MaxBgSeconds == 62

\* start_refill_task, one turn of its loop on a lone bucket with no caller:
\* interval.tick().await returns one refill_interval (1 s) after the turn
\* before, then bucket.refill().await; a panic ends the task
RefillTaskTurn ==
    /\ tb.pc = "bg"
    /\ tb.at < MaxBgSeconds * TicksPerSec
    /\ LET b == [tb EXCEPT !.at = @ + TicksPerSec]
       IN  tb' = IF RefillPanics(b)
                 THEN [b EXCEPT !.pc = "panicked"]
                 ELSE U32Refilled(b)
    /\ UNCHANGED <<rlvars, ghvars, ccvars, svvars, wtvars>>

---------------------------------------------------------------------------
(* Specifications *)

Init ==
    RateLimiterNew(GlobalCaps, PerIpCaps, MemoryDurations) /\ GitHubClientNew
        /\ CacheManagerNew({1}) /\ ServerNew /\ tb = NoBucket /\ weighed = NotWeighed

\* the rate limiter under concurrent callers and the background task
Next ==
    \/ \E p \in Callers, ip \in IPs :
          TotalStarted < MaxChecks /\ CheckStart(p, ip)
    \/ \E p \in Callers : CallerStep(p)
    \/ BgStep
    \/ (now < MaxTime /\ Tick)

Spec == Init /\ [][Next]_vars

\* the rate limiter with one caller issuing its calls one after the other
NextSeq ==
    \/ \E ip \in IPs :
          TotalStarted < MaxSeqChecks /\ CheckStart(1, ip)
    \/ CallerStep(1)
    \/ BgStep
    \/ (now < MaxSeqTime /\ Tick)

SpecSeq == Init /\ [][NextSeq]_vars

\* the GitHub client with one caller issuing its calls one after the other;
\* the rate limiter is built with RateLimitConfig::default() and left alone
InitFetch ==
    RateLimiterNew({300}, {30}, {3600}) /\ GitHubClientNew
        /\ CacheManagerNew({1}) /\ ServerNew /\ tb = NoBucket /\ weighed = NotWeighed

NextFetch ==
    \/ \E key \in OneKey :
          TotalFetches < MaxFetches /\ GetRepositoryInfo(1, key)
    \/ FetchStep(1)
    \/ \E key \in Keys : ExpireEntry(key)
    \/ WindowElapses
    \/ BackoffElapses

SpecFetch == InitFetch /\ [][NextFetch]_vars

\* the server handling one request after the other: the rate limiter allows
\* two requests in all and one per client, so that both denials occur; the
\* breaker's window and backoff do not elapse
MaxRequests == 3
MaxHandlerTime == 2

InitHandler ==
    RateLimiterNew({2}, {1}, {3600}) /\ GitHubClientNew
        /\ CacheManagerNew({1}) /\ ServerNew /\ tb = NoBucket /\ weighed = NotWeighed

NextHandler ==
    \/ \E ip \in IPs, key \in Keys :
          TotalStarted < MaxRequests /\ Handler(ip, key)
    \/ HandlerCheckRateLimit
    \/ HandlerCheckStep
    \/ HandlerMatch
    \/ HandlerGetRepositoryInfo
    \/ HandlerFetchStep
    \/ HandlerFetched
    \/ FormatSvgTemplate
    \/ \E encoded \in BOOLEAN : Encode(encoded)
    \/ (now < MaxHandlerTime /\ Tick)

SpecHandler == InitHandler /\ [][NextHandler]_vars

\* the rate limiter under concurrent callers, the background task and the
\* status endpoint; one client, two tokens in all and one per client, so that
\* a status() is taken after each kind of result
MaxStatusTime == 2
MaxStatusChecks == 3

InitStatus ==
    RateLimiterNew({2}, {1}, {3600}) /\ GitHubClientNew
        /\ CacheManagerNew({1}) /\ ServerNew /\ tb = NoBucket /\ weighed = NotWeighed

NextStatus ==
    \/ \E p \in Callers :
          TotalStarted < MaxStatusChecks /\ CheckStart(p, "A")
    \/ \E p \in Callers : CallerStep(p)
    \/ BgStep
    \/ (now < MaxStatusTime /\ Tick)
    \/ Status

SpecStatus == InitStatus /\ [][NextStatus]_vars

\* two callers of one client and the refill task, over the first second:
\* enough calls to empty the global bucket twice
MaxRaceTime == 2
MaxRaceChecks == 4

InitRace ==
    RateLimiterNew({2}, {1}, {3600}) /\ GitHubClientNew
        /\ CacheManagerNew({1}) /\ ServerNew /\ tb = NoBucket /\ weighed = NotWeighed

NextRace ==
    \/ \E p \in Callers : TotalStarted < MaxRaceChecks /\ CheckStart(p, "A")
    \/ \E p \in Callers : CallerStep(p)
    \/ BgStep
    \/ (now < MaxRaceTime /\ Tick)

SpecRace == InitRace /\ [][NextRace]_vars

\* a lone bucket: every capacity, count, time since the last refill and build
InitBucket ==
    /\ RateLimiterNew({300}, {30}, {3600}) /\ GitHubClientNew
    /\ CacheManagerNew({1}) /\ ServerNew /\ weighed = NotWeighed
    /\ \E overflow_checks \in BOOLEAN, max_tokens \in BucketCaps,
          at \in BucketTimes :
          \E tokens \in BucketCounts(max_tokens) :
             tb = TokenBucketAt(overflow_checks, max_tokens, tokens, at)

NextBucket ==
    \/ TbRefill
    \/ TbConsume

SpecBucket == InitBucket /\ [][NextBucket]_vars

\* an entry of every pair of lengths is inserted
InitWeigh ==
    /\ RateLimiterNew({300}, {30}, {3600}) /\ GitHubClientNew
    /\ CacheManagerNew({1}) /\ ServerNew /\ tb = NoBucket
    /\ \E owner_len \in OwnerLens, repo_len \in RepoLens :
          weighed = [pc |-> "new", owner_len |-> owner_len,
                     repo_len |-> repo_len, cost |-> 0]

NextWeigh == Weigh

SpecWeigh == InitWeigh /\ [][NextWeigh]_vars

\* a lone bucket and the refill task, whose first tick came at 0 or 0.5 s
\* after the bucket was made; no caller
InitRefillTask ==
    /\ RateLimiterNew({300}, {30}, {3600}) /\ GitHubClientNew
    /\ CacheManagerNew({1}) /\ ServerNew /\ weighed = NotWeighed
    /\ \E overflow_checks \in BOOLEAN, max_tokens \in BucketCaps,
          at \in 0..(TicksPerSec - 1) :
          \E tokens \in BucketCounts(max_tokens) :
             tb = [TokenBucketAt(overflow_checks, max_tokens, tokens, at)
                      EXCEPT !.pc = "bg"]

NextRefillTask == RefillTaskTurn

\* the runtime runs the spawned task whenever its interval has elapsed
SpecRefillTask ==
    InitRefillTask /\ [][NextRefillTask]_vars /\ WF_vars(RefillTaskTurn)

\* the steps of get_repository_info the runtime takes by itself; the upstream's
\* answer is not one of them: request.send().await completes when the remote
\* host answers or the connection fails, and the client is built without a
\* timeout
LocalStep(p) ==
    \/ CheckBreaker(p)
    \/ StoreValid(p)
    \/ SignalSuccess(p)
    \/ \E rate_low \in BOOLEAN : SignalFailure(p, rate_low)
    \/ HandleErrorGet(p)
    \/ HandleErrorInsert(p)

\* SpecFetch with the runtime polling every future that is ready
SpecFetchLive == InitFetch /\ [][NextFetch]_vars /\ WF_vars(LocalStep(1))

\* the GitHub client with one caller asking for two repositories, the upstream
\* answering with a repository, a 404 or a 500, and no entry expiring
MaxTwoKeyFetches == 6
TwoKeyResponses ==
    {Response(200, "d1"), Response(404, "none"), Response(500, "none")}

NextTwoKeys ==
    \/ \E key \in Keys :
          TotalFetches < MaxTwoKeyFetches /\ GetRepositoryInfo(1, key)
    \/ CheckBreaker(1)
    \/ \E resp \in TwoKeyResponses : UpstreamCall(1, resp)
    \/ StoreValid(1)
    \/ SignalSuccess(1)
    \/ \E rate_low \in BOOLEAN : SignalFailure(1, rate_low)
    \/ HandleErrorGet(1)
    \/ HandleErrorInsert(1)
    \/ WindowElapses
    \/ BackoffElapses

SpecTwoKeys == InitFetch /\ [][NextTwoKeys]_vars

\* the GitHub client with one caller asking for two repositories, the upstream
\* failing to answer or answering with a repository, a 400 or a 404, and no
\* entry expiring
MaxStreakFetches == 6
StreakResponses ==
    {Response(0, "none"), Response(200, "d1"), Response(400, "none"),
     Response(404, "none")}

NextStreak ==
    \/ \E key \in Keys :
          TotalFetches < MaxStreakFetches /\ GetRepositoryInfo(1, key)
    \/ CheckBreaker(1)
    \/ \E resp \in StreakResponses : UpstreamCall(1, resp)
    \/ StoreValid(1)
    \/ SignalSuccess(1)
    \/ \E rate_low \in BOOLEAN : SignalFailure(1, rate_low)
    \/ HandleErrorGet(1)
    \/ HandleErrorInsert(1)
    \/ WindowElapses
    \/ BackoffElapses

SpecStreak == InitFetch /\ [][NextStreak]_vars

\* the GitHub client with two concurrent callers asking for one repository,
\* the upstream answering with a repository, a 404 or a 500; the entry can
\* expire, the breaker's window and backoff do not elapse
MaxConcFetches == 5

NextFetchConc ==
    \/ \E p \in Fetchers, key \in OneKey :
          TotalFetches < MaxConcFetches /\ GetRepositoryInfo(p, key)
    \/ \E p \in Fetchers :
          \/ CheckBreaker(p)
          \/ \E resp \in TwoKeyResponses : UpstreamCall(p, resp)
          \/ StoreValid(p)
          \/ SignalSuccess(p)
          \/ \E rate_low \in BOOLEAN : SignalFailure(p, rate_low)
          \/ HandleErrorGet(p)
          \/ HandleErrorInsert(p)
    \/ \E key \in OneKey : ExpireEntry(key)

SpecFetchConc == InitFetch /\ [][NextFetchConc]_vars

\* the content cache under concurrent callers, evictions and process restarts
MaxCacheCalls == 3
MaxRestarts == 1

InitCache ==
    RateLimiterNew({300}, {30}, {3600}) /\ GitHubClientNew
        /\ CacheManagerNew(Seeds) /\ ServerNew /\ tb = NoBucket /\ weighed = NotWeighed

NextCache ==
    \/ \E p \in CacheCallers, m \in Meanings :
          next_fn <= MaxCacheCalls /\ GetOrCreate(p, m)
    \/ \E p \in CacheCallers : GocStep(p)
    \/ \E key \in HashKeys : EvictMemory(key)
    \/ \E key \in HashKeys : EvictDisk(key)
    \/ (process_run <= MaxRestarts /\ Restart)

SpecCache == InitCache /\ [][NextCache]_vars

---------------------------------------------------------------------------
(* Properties of the rate limiter *)

TotalAllowed == SumOver(allowed, IPs)

\* C1: under every interleaving of try_consume and refill calls (concurrent
\* callers and the background task), the token count of every bucket stays
\* within [0, max_tokens].
C1_TokenBucketBound ==
    \A b \in BucketIds :
        buckets[b].tokens >= 0 /\ buckets[b].tokens <= buckets[b].max_tokens

\* a token was consumed, a refill has brought the global bucket back to its
\* capacity, and another caller stands between its load and its
\* compare-exchange
C1_Witness ==
    /\ refilled
    /\ TotalAllowed >= 1
    /\ buckets[GlobalBucket].tokens = buckets[GlobalBucket].max_tokens
    /\ \E p \in Callers : call[p].pc = "cas"

\* the per-IP side of the limiter: the map and every per-IP bucket
IpSideUnchanged ==
    /\ ip_buckets' = ip_buckets
    /\ inserted_at' = inserted_at
    /\ next_bucket' = next_bucket
    /\ \A b \in BucketIds \ {GlobalBucket} : buckets'[b] = buckets[b]

\* C2: check_rate_limit consults the global bucket first: every step a call
\* takes before it has passed the global check leaves the per-IP map and every
\* per-IP bucket unchanged; a denial by the global bucket ends the call with
\* GlobalLimitExceeded, and a call that returns GlobalLimitExceeded has never
\* looked up or created a per-IP bucket.
C2_GlobalDenyFirst ==
    [][\A p \in Callers :
         /\ (call'[p] # call[p] /\ call'[p].phase = "global") => IpSideUnchanged
         /\ call'[p].global_denied =>
               call'[p].pc = "done" /\ call'[p].result = "GlobalLimitExceeded"
         /\ call'[p].result = "GlobalLimitExceeded" =>
               call'[p].phase = "global" /\ ~call'[p].ip_touched]_vars

\* a call was denied by the global bucket while a per-IP bucket exists
C2_Witness ==
    \E p \in Callers :
        /\ call[p].pc = "done"
        /\ call[p].result = "GlobalLimitExceeded"
        /\ \E ip \in IPs : ip_buckets[ip] # 0

\* the configured capacities
G == config.global_requests_per_minute
C == config.per_ip_requests_per_minute

\* C3, as claimed: the outcome of a client's Check does not depend on the
\* calls of other clients, so the k-th call of a client, k <= min(G, C), is
\* Allowed whatever the other clients did.
C3_OutcomeIndependentOfOthers ==
    \A p \in Callers :
        (call[p].pc = "done" /\ call[p].k <= Min(G, C)) =>
            call[p].result = "Allowed"

\* C3, amended: the per-client budgets are independent: a client is answered
\* IpLimitExceeded only after its own calls were Allowed at least C times.
C3_ClientIsolation ==
    \A p \in Callers :
        (call[p].pc = "done" /\ call[p].result = "IpLimitExceeded") =>
            allowed[call[p].ip] >= C

\* client A has exhausted its budget and been denied, and B's first call
\* after that is Allowed
C3_Witness ==
    /\ ip_denied["A"] >= 1
    /\ call[1].pc = "done"
    /\ call[1].ip = "B"
    /\ call[1].k = 1
    /\ call[1].result = "Allowed"

\* the result of the k-th call of a single client on a fresh limiter
Expected(k, g, c) ==
    IF k > g THEN "GlobalLimitExceeded"
    ELSE IF k > c THEN "IpLimitExceeded"
    ELSE "Allowed"

\* C4, as claimed: on a fresh limiter, while no refill has occurred and a
\* single client calls sequentially, the k-th call returns Allowed if
\* k <= min(G, C), IpLimitExceeded if C < k <= G, and GlobalLimitExceeded if
\* k > G.
C4_SingleClientSequence ==
    (/\ call[1].pc = "done"
     /\ ~refilled
     /\ \A ip \in IPs \ {call[1].ip} : started[ip] = 0)
    => call[1].result = Expected(call[1].k, G, C)

\* the client's per-IP bucket is the first one the limiter created: the cache
\* entry has not expired and been replaced by a full bucket
NoBucketReplaced == next_bucket <= 2

\* C4, amended: the same sequence of results, as long as no refill has
\* occurred and the client's cache entry has not expired (ip_memory_duration
\* after its creation) and been replaced by a new, full bucket.
C4_SingleClientNoExpiry ==
    (/\ call[1].pc = "done"
     /\ ~refilled
     /\ NoBucketReplaced
     /\ \A ip \in IPs \ {call[1].ip} : started[ip] = 0)
    => call[1].result = Expected(call[1].k, G, C)

\* the third call of a single client, with G = 2, no refill and no expiry so
\* far, is denied by the global bucket
C4_Witness ==
    /\ call[1].pc = "done"
    /\ ~refilled
    /\ NoBucketReplaced
    /\ started[call[1].ip] = 3 /\ call[1].k = 3
    /\ TotalStarted = 3
    /\ G = 2
    /\ call[1].result = "GlobalLimitExceeded"

\* C5, as claimed: within any 60 seconds no client is Allowed more than
\* per_ip_requests_per_minute times, and all clients together no more than
\* global_requests_per_minute times.
C5_PerMinuteMaximum ==
    now < 60 * TicksPerSec =>
        /\ \A ip \in IPs : allowed[ip] <= C
        /\ TotalAllowed <= G

---------------------------------------------------------------------------
(* Properties of the GitHub client *)

\* the call of caller 1 has returned
Returned == fetch[1].pc = "done"

\* the call of caller 1 reached the upstream
CalledUpstream == fetch[1].resp # NoResponse

\* the call of caller 1 got an error other than NotFound from the upstream
FailedRetryably ==
    /\ CalledUpstream
    /\ fetch[1].res.tag = "Err"
    /\ fetch[1].res.error.kind # "NotFound"

\* C6, as claimed: from an empty cache, with the upstream answering 500 to
\* every call for the key, the first call returns ApiError(500) and leaves
\* Invalid{remaining: 2}, the second leaves Invalid{remaining: 1}, the third
\* leaves InvalidExhausted, and the fourth returns the same error without an
\* upstream call.
C6_ThreeFailuresExhaust ==
    (Returned /\ only500 /\ ~expired /\ fetch[1].k <= 4) =>
        LET key == fetch[1].key
            k == fetch[1].k
        IN  /\ fetch[1].ret = Err(ApiError(500))
            /\ k = 1 => cache[key] = Invalid(ApiError(500), 2)
            /\ k = 2 => cache[key] = Invalid(ApiError(500), 1)
            /\ k = 3 => cache[key] = InvalidExhausted(ApiError(500))
            /\ k = 4 => ~CalledUpstream /\ upstream_calls[key] = 3

\* C7: a call that fails retryably on an entry Invalid{remaining: r} leaves
\* Invalid{r - 1}, and InvalidExhausted when r = 1 (so 3 -> 2 -> 1 ->
\* exhausted); a call that finds the entry exhausted returns the cached error
\* without an upstream call.
C7_RetryBudgetCountsDown ==
    LET f == fetch[1]
    IN  /\ (Returned /\ FailedRetryably /\ ~expired /\ f.pre.variant = "Invalid") =>
              /\ f.pre.remaining = 3 => cache[f.key] = Invalid(f.res.error, 2)
              /\ f.pre.remaining = 2 => cache[f.key] = Invalid(f.res.error, 1)
              /\ f.pre.remaining = 1 => cache[f.key] = InvalidExhausted(f.res.error)
              /\ f.ret = f.res
        /\ (Returned /\ f.pre.variant = "InvalidExhausted") =>
              /\ ~CalledUpstream
              /\ f.ret = Err(f.pre.error)
              /\ (~expired => cache[f.key] = f.pre)

\* the entry went 3 -> 2 -> 1 -> exhausted in three failing upstream calls,
\* and the call after them was answered from the cache
C7_Witness ==
    /\ Returned
    /\ ~expired
    /\ fetch[1].pre.variant = "InvalidExhausted"
    /\ fetch[1].pre.error.kind # "NotFound"
    /\ ~CalledUpstream
    /\ upstream_calls[fetch[1].key] = 4
    /\ fetch[1].k = 5

\* C8: an upstream 404 leaves the key InvalidExhausted{NotFound} whatever
\* entry (none, or Invalid with any remaining count) the key held, and the
\* call returns NotFound; a call that finds that entry returns NotFound
\* without an upstream call.
C8_NotFoundExhaustsAtOnce ==
    LET f == fetch[1]
    IN  /\ (Returned /\ CalledUpstream /\ f.resp.status = 404) =>
              /\ f.ret = Err(NotFound)
              /\ f.pre.variant \in {"Absent", "Invalid"}
              /\ (~expired => cache[f.key] = InvalidExhausted(NotFound))
        /\ (Returned /\ f.pre = InvalidExhausted(NotFound)) =>
              /\ ~CalledUpstream
              /\ f.ret = Err(NotFound)

\* a 404 arrived on an entry that still had retries left, and the next call
\* was answered NotFound from the cache
C8_Witness ==
    /\ Returned
    /\ ~expired
    /\ fetch[1].pre = InvalidExhausted(NotFound)
    /\ ~CalledUpstream
    /\ fetch[1].ret = Err(NotFound)
    /\ fetch[1].k = 3
    /\ upstream_calls[fetch[1].key] = 2

PrivateRepo == Response(200, "private")
Http404 == Response(404, "none")

\* C9: a 200 for a private repository and a 404 cannot be told apart: from
\* every reachable cache entry and breaker state the two calls return the same
\* error, leave the same entry and the same breaker, send the same signal, and
\* every later call gives the same result after the one as after the other;
\* and each call that got either answer returned NotFound, sent the breaker
\* no signal, and left InvalidExhausted{NotFound}.
C9_PrivateLooksLikeNotFound ==
    /\ \A key \in Keys, rate_low \in BOOLEAN :
          LET priv == SeqFetch(cache[key], breaker, PrivateRepo, rate_low)
              nf == SeqFetch(cache[key], breaker, Http404, rate_low)
          IN  /\ priv = nf
              /\ priv.upstream =>
                    /\ priv.ret = Err(NotFound)
                    /\ priv.entry = InvalidExhausted(NotFound)
                    /\ priv.signal = "none"
              /\ \A later \in Responses, rl \in BOOLEAN :
                    SeqFetch(priv.entry, priv.breaker, later, rl)
                        = SeqFetch(nf.entry, nf.breaker, later, rl)
    /\ (Returned /\ fetch[1].resp \in {PrivateRepo, Http404}) =>
          /\ fetch[1].ret = Err(NotFound)
          /\ fetch[1].signal = "none"
          /\ breaker.consecutive_failures = fetch[1].pre_breaker.consecutive_failures
          /\ breaker.requests = fetch[1].pre_breaker.requests
          /\ (~expired => cache[fetch[1].key] = InvalidExhausted(NotFound))

\* the upstream answered a call with a private repository, on an entry that
\* still had retries left
C9_Witness ==
    /\ Returned
    /\ ~expired
    /\ fetch[1].resp = PrivateRepo
    /\ fetch[1].pre.variant = "Invalid"
    /\ cache[fetch[1].key] = InvalidExhausted(NotFound)

\* C10: the breaker is sent a failure signal exactly for NetworkError,
\* RateLimited and ApiError(code >= 500), and for none of NotFound,
\* ApiError(code < 500), AuthError, InvalidFormat; five upstream calls in a
\* row failing with NetworkError leave it Open, and a call failing with
\* ApiError(400) leaves a Closed breaker Closed.
C10_BreakerSelectivity ==
    LET f == fetch[1]
        e == f.res.error
    IN  /\ (Returned /\ CalledUpstream /\ f.res.tag = "Err") =>
              (f.signal = "failure" <=>
                  \/ e.kind \in {"NetworkError", "RateLimited"}
                  \/ e.kind = "ApiError" /\ e.code >= 500)
        /\ (Returned /\ CalledUpstream /\ f.res.tag = "Ok") => f.signal = "success"
        /\ ShouldTriggerCircuitBreaker(NetworkError)
        /\ ShouldTriggerCircuitBreaker(RateLimited)
        /\ \A code \in {400, 401, 499, 500, 503} :
              ShouldTriggerCircuitBreaker(ApiError(code)) <=> code >= 500
        /\ \A other \in {NotFound, AuthError, InvalidFormat} :
              ~ShouldTriggerCircuitBreaker(other)
        /\ (Returned /\ CalledUpstream /\ run.error = NetworkError
               /\ run.len >= ConsecutiveFailuresLimit) =>
              breaker.state = "Open"
        /\ (Returned /\ CalledUpstream /\ f.resp.status = 400
               /\ f.pre_breaker.state = "Closed") =>
              /\ breaker.state = "Closed"
              /\ breaker.consecutive_failures = f.pre_breaker.consecutive_failures

\* the fifth upstream call in a row has failed with NetworkError
C10_Witness ==
    /\ Returned
    /\ CalledUpstream
    /\ run.error = NetworkError
    /\ run.len = ConsecutiveFailuresLimit
    /\ fetch[1].pre_breaker.state = "Closed"
    /\ breaker.state = "Open"

\* the counters of the breaker are the ones the call found
BreakerCountersKept ==
    /\ breaker.consecutive_failures = fetch[1].pre_breaker.consecutive_failures
    /\ breaker.requests = fetch[1].pre_breaker.requests

\* C11: an Open breaker denies the call: the upstream is only ever called with
\* the breaker not Open, and a call answered CircuitBreakerOpen found no
\* Valid and no InvalidExhausted entry, made no upstream call, left the key's
\* entry (and its remaining count) as it was, and sent the breaker no signal.
C11_OpenBreakerDenies ==
    /\ fetch[1].pc = "upstream" => breaker.state # "Open"
    /\ (Returned /\ fetch[1].ret = Err(CircuitBreakerOpen)) =>
          /\ fetch[1].pre.variant \in {"Absent", "Invalid"}
          /\ fetch[1].attempts = 0
          /\ fetch[1].signals = 0
          /\ breaker.state = "Open"
          /\ BreakerCountersKept
          /\ (~expired => cache[fetch[1].key] = fetch[1].pre)

\* a call for a key with retries left was denied by the Open breaker
C11_Witness ==
    /\ Returned
    /\ ~expired
    /\ fetch[1].ret = Err(CircuitBreakerOpen)
    /\ fetch[1].pre.variant = "Invalid"
    /\ cache[fetch[1].key] = fetch[1].pre
    /\ upstream_calls[fetch[1].key] = fetch[1].k - 1

\* C12: a call makes at most one upstream attempt: none when it finds a Valid
\* or InvalidExhausted entry or the breaker denies it, exactly one otherwise; a
\* retryable failure is not retried inside the call.
C12_AtMostOneAttempt ==
    /\ fetch[1].attempts <= 1
    /\ Returned =>
          fetch[1].attempts =
             IF \/ fetch[1].pre.variant \in {"Valid", "InvalidExhausted"}
                \/ fetch[1].ret = Err(CircuitBreakerOpen)
             THEN 0 ELSE 1
    /\ Returned => (CalledUpstream <=> fetch[1].attempts = 1)

\* a call failed retryably, left retries for later calls, and returned after
\* its one attempt
C12_Witness ==
    /\ Returned
    /\ FailedRetryably
    /\ fetch[1].attempts = 1
    /\ fetch[1].pre.variant = "Invalid"
    /\ cache[fetch[1].key].variant = "Invalid"
    /\ cache[fetch[1].key].remaining >= 1

\* C13: the cache is consulted before the breaker: a call that finds a Valid
\* entry returns its data and one that finds an InvalidExhausted entry returns
\* its error, with no upstream call and no breaker signal, whatever the state
\* of the breaker; only calls that found no entry or an Invalid one get as far
\* as the breaker check.
C13_CacheBeforeBreaker ==
    LET f == fetch[1]
    IN  /\ f.pc \notin {"idle", "done"} => f.pre.variant \in {"Absent", "Invalid"}
        /\ (Returned /\ f.pre.variant \in {"Valid", "InvalidExhausted"}) =>
              /\ f.ret = IF f.pre.variant = "Valid" THEN Ok(f.pre.data)
                         ELSE Err(f.pre.error)
              /\ f.attempts = 0
              /\ f.signals = 0
              /\ breaker.state = f.pre_breaker.state
              /\ BreakerCountersKept
              /\ cache[f.key] = f.pre

\* with the breaker Open and its backoff running, a call was answered from a
\* Valid entry
C13_Witness ==
    /\ Returned
    /\ fetch[1].pre.variant = "Valid"
    /\ fetch[1].pre_breaker.state = "Open"
    /\ ~fetch[1].pre_breaker.backoff_elapsed
    /\ breaker.state = "Open"
    /\ fetch[1].ret = Ok(fetch[1].pre.data)

\* C14: a successful upstream call stores Valid{data} whatever entry the key
\* held, sends the breaker exactly one success signal and returns the data;
\* a call that finds the Valid entry returns its data without an upstream call.
C14_SuccessIsCached ==
    LET f == fetch[1]
    IN  /\ (Returned /\ CalledUpstream /\ f.res.tag = "Ok") =>
              /\ f.pre.variant \in {"Absent", "Invalid"}
              /\ f.ret = Ok(f.res.data)
              /\ f.signal = "success"
              /\ f.signals = 1
              /\ (~expired => cache[f.key] = Valid(f.res.data))
        /\ (Returned /\ f.pre.variant = "Valid") =>
              /\ f.ret = Ok(f.pre.data)
              /\ f.attempts = 0
              /\ f.signals = 0
              /\ (~expired => cache[f.key] = f.pre)

\* a success replaced an entry with retries left, and two later calls were
\* answered from the cache
C14_Witness ==
    /\ Returned
    /\ ~expired
    /\ fetch[1].pre.variant = "Valid"
    /\ fetch[1].ret = Ok(fetch[1].pre.data)
    /\ fetch[1].k = 4
    /\ upstream_calls[fetch[1].key] = 2

---------------------------------------------------------------------------
(* Properties of the content cache *)

\* the callers whose get_or_create for key has returned
ReturnedFor(key) == {p \in CacheCallers : goc[p].pc = "done" /\ goc[p].key = key}

\* C15: single flight: as long as no generation has failed and nothing was
\* evicted or restarted, callers of get_or_create for a key that was in
\* neither tier run create_fn exactly once among them, and every one of them
\* gets the artifact that one run produced.
C15_SingleFlight ==
    ~disturbed =>
        \A key \in HashKeys :
            /\ gen_count[key] <= 1
            /\ ReturnedFor(key) # {} => gen_count[key] = 1
            /\ \A p \in ReturnedFor(key) :
                  /\ goc[p].result = CacheOk(l1[key])
                  /\ goc[p].result.value.image_data \in gen_log
            /\ \A p, q \in ReturnedFor(key) : goc[p].result = goc[q].result

\* two callers asked for the same meaning at once: one ran create_fn, the
\* other waited for it, and both have the artifact
C15_Witness ==
    /\ ~disturbed
    /\ goc[1].pc = "done" /\ goc[2].pc = "done"
    /\ goc[1].meaning = goc[2].meaning
    /\ goc[1].state = "miss" /\ goc[2].state = "wait"
    /\ gen_count[goc[1].key] = 1
    /\ goc[2].result = CacheOk(CacheValue(goc[1].fn, goc[1].meaning))

\* C16: once a get_or_create for a key has succeeded, every later call made
\* while the entry stays in a tier returns the same bytes and does not run
\* its own create_fn.
C16_LiveEntryIsReturned ==
    \A p \in CacheCallers :
        (goc[p].pc = "done" /\ goc[p].prev_served # NoValue) =>
            /\ goc[p].result = CacheOk(goc[p].prev_served)
            /\ goc[p].fn \notin gen_log
            /\ goc[p].result.value.image_data # goc[p].fn

\* a call for the same meaning found the entry an earlier call had created,
\* in memory
C16_Witness ==
    \E p \in CacheCallers :
        /\ goc[p].pc = "done"
        /\ goc[p].state = "hit"
        /\ goc[p].prev_served # NoValue
        /\ goc[p].result = CacheOk(goc[p].prev_served)
        /\ goc[p].result.value.meaning = goc[p].meaning
        /\ goc[p].fn \notin gen_log

\* a value produced by the fetch that fn started is in a tier
Stored(fn) ==
    \E key \in HashKeys : l1[key].image_data = fn \/ l2[key].image_data = fn

\* C17: when create_fn fails, the caller and every caller that waited for the
\* same fetch get an error, nothing of that fetch is stored in either tier,
\* and the key is left without an entry and without a fetch in flight, so
\* that the next call for it runs its own create_fn.
C17_FailureIsNotCached ==
    \A p \in CacheCallers :
        /\ (goc[p].pc = "done" /\ goc[p].result = CacheErr) =>
              /\ goc[p].state \in {"miss", "wait"}
              /\ goc[p].flight \in gen_log
              /\ ~Stored(goc[p].flight)
              /\ \A q \in CacheCallers :
                    (goc[q].pc = "done" /\ goc[q].flight = goc[p].flight) =>
                        goc[q].result = CacheErr
              /\ \A q \in CacheCallers :
                    goc[q].pc = "wait" => goc[q].flight # goc[p].flight
        /\ (goc[p].pc = "done" /\ goc[p].state = "miss"
               /\ goc[p].result.tag = "Ok") =>
              /\ goc[p].fn \in gen_log
              /\ goc[p].result.value.image_data = goc[p].fn
        /\ goc[p].pc = "create" => Dead(l1, l2, goc[p].key)

\* a generation failed for the caller that ran it and for the one that waited
\* for it; the waiter's slot was then used for a new call for the same key,
\* which ran its own create_fn
C17_Witness ==
    /\ goc[1].pc = "done" /\ goc[1].result = CacheErr /\ goc[1].state = "miss"
    /\ goc[2].pc = "done" /\ goc[2].state = "miss" /\ goc[2].result.tag = "Ok"
    /\ goc[2].key = goc[1].key
    /\ goc[2].fn = 3
    /\ gen_count[goc[1].key] = 2
    /\ gen_log = {1, 3}

---------------------------------------------------------------------------
(* Termination of get_repository_info *)

\* C19, as claimed: every call of get_repository_info eventually returns,
\* also when the upstream never answers.
C19_FetchEventuallyReturns ==
    \A p \in Fetchers :
        (fetch[p].pc \notin {"idle", "done"}) ~> (fetch[p].pc = "done")

---------------------------------------------------------------------------
(* Properties of the request handler *)

\* nothing behind the rate limiter has happened since the request arrived
NoWorkSinceArrival ==
    /\ TotalFetches = req.fetches
    /\ TotalUpstream = req.upstream
    /\ cache = req.cache
    /\ breaker = req.breaker
    /\ work = req.work

\* C20: admission comes before the expensive work: while check_rate_limit is
\* running, and for good when it returned GlobalLimitExceeded or
\* IpLimitExceeded, the request has called neither get_repository_info nor
\* the upstream, has changed no entry of the repository cache, has sent the
\* breaker no signal, and has rendered and encoded nothing; the denied
\* request is answered 429.
C20_AdmissionPrecedesWork ==
    /\ req.pc = "check" => NoWorkSinceArrival
    /\ req.result \in {"GlobalLimitExceeded", "IpLimitExceeded"} =>
          /\ req.pc = "done"
          /\ req.status = 429
          /\ NoWorkSinceArrival
    /\ req.pc \in {"fetch", "render", "encode"} => req.result = "Allowed"
    /\ (TotalFetches > req.fetches \/ work > req.work) =>
          req.result = "Allowed"

\* after a request that was admitted, fetched its repository and was encoded,
\* and one that its client's bucket denied, a request is denied by the global
\* bucket
C20_Witness ==
    /\ req.pc = "done"
    /\ req.result = "GlobalLimitExceeded"
    /\ req.status = 429
    /\ \E ip \in IPs : ip_denied[ip] >= 1
    /\ work >= 2
    /\ cache[req.key].variant = "Valid"

---------------------------------------------------------------------------
(* Properties of RateLimiter::status *)

\* C21: the global_tokens_remaining a status() returns is, as long as no
\* refill has stored a count, the global capacity minus the number of Check
\* calls that got past the global bucket (whether they then returned Allowed
\* or IpLimitExceeded), so it is the capacity on a fresh limiter; and a
\* status() changes no bucket and no entry of ip_buckets.
C21_StatusCountsGlobalTokens ==
    /\ [](/\ last_status.taken =>
                last_status.global_tokens_max = config.global_requests_per_minute
          /\ (last_status.taken /\ ~last_status.refilled) =>
                last_status.global_tokens_remaining =
                    last_status.global_tokens_max - last_status.passed)
    /\ [][last_status' # last_status =>
             /\ buckets' = buckets
             /\ ip_buckets' = ip_buckets
             /\ inserted_at' = inserted_at]_vars

\* with no refill so far, a status() was taken after one call was Allowed, one
\* was denied by its client's bucket and one by the global bucket: no token
\* is left of the two
C21_Witness ==
    /\ last_status.taken
    /\ ~last_status.refilled
    /\ last_status.passed = 2
    /\ last_status.global_tokens_remaining = 0
    /\ \E ip \in IPs : ip_denied[ip] = 1 /\ allowed[ip] = 1
    /\ TotalStarted = 3
    /\ \A p \in Callers : call[p].pc \in {"idle", "done"}
    /\ \E p \in Callers : call[p].result = "GlobalLimitExceeded"

---------------------------------------------------------------------------
(* Progress of TokenBucket::try_consume *)

\* caller p is inside try_consume (its refill included)
InTryConsume(p) == call[p].pc \in {"lock", "store", "load", "cas"}

\* C22, as claimed: try_consume never waits for another caller: whatever the
\* other callers and the refill task are doing, also holding the write lock
\* of last_refill, a caller inside try_consume has a step of its own to take.
C22_TryConsumeNeverBlocks ==
    \A p \in Callers : InTryConsume(p) => ENABLED CallerStep(p)

---------------------------------------------------------------------------
(* Properties of the repository cache under concurrent callers *)

\* C23, as claimed: a Valid entry is replaced by nothing but its expiry or
\* another Valid entry: no step of a failing call turns it into Invalid or
\* InvalidExhausted.
C23_ValidNotOverwrittenByFailure ==
    [][\A key \in Keys :
          cache[key].variant = "Valid" =>
              cache'[key].variant \in {"Valid", "Absent"}]_vars

\* no caller is inside get_repository_info
Quiescent == \A p \in Fetchers : fetch[p].pc \in {"idle", "done"}

\* C24, as claimed: while every upstream call has failed with a 500 and no
\* entry has expired, each failure has lowered the key's budget by one: the
\* key has had at most four upstream calls, and once the callers have
\* returned, an entry that is still Invalid has 4 - n retries left after n
\* upstream calls.
C24_ConcurrentFailuresCountDown ==
    (only500 /\ ~expired) =>
        \A key \in Keys :
            /\ upstream_calls[key] <= DEFAULT_API_RETRIES + 1
            /\ (Quiescent /\ cache[key].variant = "Invalid") =>
                  cache[key].remaining =
                      DEFAULT_API_RETRIES + 1 - upstream_calls[key]

---------------------------------------------------------------------------
(* Expiry of the repository cache's entries *)

\* C25, as claimed: an InvalidExhausted entry is not removed by the cache's
\* time_to_live: the only change it ever sees is being overwritten by an
\* insert.
C25_ExhaustedNeverExpires ==
    [][\A key \in Keys :
          cache[key].variant = "InvalidExhausted" => cache'[key] # Absent]_vars

---------------------------------------------------------------------------
(* Transitions of the circuit breaker *)

\* the failure policy is breached by one more failure: the fifth consecutive
\* one, or one that leaves the success rate low over an elapsed window with
\* the minimum number of requests
PolicyBreached(br) ==
    \/ br.consecutive_failures + 1 >= ConsecutiveFailuresLimit
    \/ SuccessRateCanTrip(br)

\* some caller's step sent the breaker the signal
Signalled(signal) ==
    \E p \in Fetchers :
        /\ fetch'[p].signals = fetch[p].signals + 1
        /\ fetch'[p].signal = signal

---------------------------------------------------------------------------
(* Per-client buckets under concurrent callers *)

\* no entry of ip_buckets can have expired yet
BeforeAnyExpiry == now < config.ip_memory_duration * TicksPerSec

\* C27, as claimed: before any entry can expire, the callers checking one
\* client at the same time consume from one and the same bucket, and with no
\* refill the client is Allowed at most per_ip_requests_per_minute times.
C27_OneBucketPerClient ==
    BeforeAnyExpiry =>
        /\ \A p, q \in Callers :
              (/\ call[p].phase = "ip" /\ call[q].phase = "ip"
               /\ call[p].pc # "done" /\ call[q].pc # "done"
               /\ call[p].ip = call[q].ip) =>
                  call[p].bucket = call[q].bucket
        /\ ~refilled =>
              \A ip \in IPs : allowed[ip] <= config.per_ip_requests_per_minute

---------------------------------------------------------------------------
(* Expiry of the per-client buckets *)

\* C28, as claimed: the entry of a client one of whose Check calls looked up
\* its bucket less than ip_memory_duration ago has not expired: a bucket is
\* dropped only after ip_memory_duration has passed without a Check call of
\* its client.
C28_ExpiryOnlyByInactivity ==
    \A ip \in IPs :
        (/\ ip_buckets[ip] # 0
         /\ now - last_check[ip] < config.ip_memory_duration * TicksPerSec) =>
            Live(ip)

\* the seconds refill() counts in the call on the lone bucket
BucketElapsedSecs == SecondsPassed(tb.at)

\* min(max_tokens, before + seconds * refill_rate), with no width
ClaimedTokens ==
    LET sum == WideAdd(tb.before, Wrap(WideMul(BucketElapsedSecs, tb.refill_rate)))
        wide == [sum EXCEPT !.top = @ + WideMul(BucketElapsedSecs,
                                                tb.refill_rate).top]
    IN  IF WideLeq(tb.max_tokens, wide) THEN tb.max_tokens ELSE Wrap(wide)

\* C29: once refill() has run on a bucket, with e whole seconds since the last
\* refill: if e >= 1 the count is min(max, count + e * refill_rate) and the
\* timestamp is the time of the call; if e = 0 the count and the timestamp are
\* what they were; and the count is never below what it was.
C29_RefillAddsElapsedTokens ==
    (tb.pc \in {"refilled", "panicked"}) =>
        /\ tb.pc = "refilled"
        /\ BucketElapsedSecs >= 1 =>
              tb.tokens = ClaimedTokens /\ tb.last_refill = tb.at
        /\ BucketElapsedSecs = 0 =>
              tb.tokens = tb.before /\ tb.last_refill = 0
        /\ U32Leq(tb.before, tb.tokens)

\* C30: a try_consume() by a sole caller, one whole second or more after the
\* last refill of a bucket of capacity at least 1 whose rate is
\* max(1, capacity / 60), returns true even if the bucket was empty.
C30_SoleCallerProgress ==
    (/\ tb.pc \in {"done", "panicked"}
     /\ BucketElapsedSecs >= 1
     /\ tb.before = U32Zero) => tb.ret = "true"

\* seconds_passed * refill_rate of the refill() that has run, exactly
ProductOfRefill == WideMul(BucketElapsedSecs, tb.refill_rate)

\* C37: in a refill() with one whole second or more elapsed, neither
\* seconds_passed * refill_rate nor current_tokens + tokens_to_add exceeds
\* 32 bits, and the count stored is at least
\* min(max, count + seconds * refill_rate).
C37_RefillNeverWraps ==
    (tb.pc \in {"refilled", "panicked"} /\ BucketElapsedSecs >= 1) =>
        /\ ~Overflows(ProductOfRefill)
        /\ ~Overflows(WideAdd(tb.before, Wrap(ProductOfRefill)))
        /\ tb.pc = "refilled"
        /\ U32Leq(ClaimedTokens, tb.tokens)

\* C31: with the refill task running and no Check call, the bucket eventually
\* holds its maximum count.
C31_RefillTaskFillsBucket == <>(tb.tokens = tb.max_tokens)

\* the call of caller 1 was answered 401 by the upstream
Answered401 == Returned /\ CalledUpstream /\ fetch[1].resp.status = 401

\* C32, as claimed: a call the upstream answers with 401 returns AuthError
\* and sends the breaker no failure signal.
C32_UnauthorizedIsAuthError ==
    Answered401 =>
        /\ fetch[1].ret = Err(AuthError)
        /\ fetch[1].signal # "failure"

\* C32, amended: a call the upstream answers with 401 returns ApiError(401),
\* which maps to the status 401, and sends the breaker no signal: the
\* breaker's counters are the ones the call found.
C32_UnauthorizedIsApiError ==
    Answered401 =>
        /\ fetch[1].ret = Err(ApiError(401))
        /\ StatusOf(fetch[1].ret.error) = 401
        /\ fetch[1].signal = "none"
        /\ fetch[1].signals = 0
        /\ BreakerCountersKept

\* a call was answered 401 while the breaker had four failures in a row
C32_Witness ==
    /\ Answered401
    /\ fetch[1].pre_breaker.consecutive_failures = ConsecutiveFailuresLimit - 1
    /\ breaker.state = "Closed"

\* the ContentCache holds an artifact in one of its tiers
ContentCached == \E key \in DOMAIN l1 : l1[key] # NoValue \/ l2[key] # NoValue

\* C33: the handler obtains its bytes through the content cache: once a
\* request has returned an image the ContentCache holds an artifact, and a
\* request for a repository whose image an earlier request returned does not
\* render or encode again.
C33_RequestUsesContentCache ==
    /\ (req.pc = "done" /\ req.status = 200) => ContentCached
    /\ req.again => work = req.work

\* C34: the cost of an entry is max(1, floor(10000 / (len(owner) + len(repo)
\* + 1))); it is at least 1; and an entry with a higher value score never has
\* a higher cost than one with a lower value score.
C34_CostIsInverseOfScore ==
    weighed.pc = "weighed" =>
        LET score == ValueScore(weighed.owner_len, weighed.repo_len)
        IN  /\ weighed.cost = Max(1, 10000 \div (score + 1))
            /\ weighed.cost >= 1
            /\ \A owner_len \in OwnerLens, repo_len \in RepoLens :
                  ValueScore(owner_len, repo_len) > score =>
                      Weighter(owner_len, repo_len) <= weighed.cost

\* an entry whose quotient is below 1 was weighed: the cost is raised to 1
C34_Witness ==
    /\ weighed.pc = "weighed"
    /\ ValueScore(weighed.owner_len, weighed.repo_len) + 1 > 10000
    /\ weighed.cost = 1

\* C35: on the global bucket, the try_consume() calls that returned true are
\* never more than max_tokens plus the tokens the refills have credited (the
\* sum of their seconds_passed * refill_rate).
C35_NoConsumptionLost ==
    PassedGlobal <= buckets[GlobalBucket].max_tokens
                       + buckets[GlobalBucket].credited

\* the buckets TokenBucket::new has made
Allocated == {b \in BucketIds : b = GlobalBucket \/ b < next_bucket}

\* C36: the tokens the refills of a bucket have credited are at most
\* refill_rate times the whole seconds since the bucket was made, however
\* many refills ran; and a step that raises a bucket's count or its credit
\* moves its last_refill forward by a whole second or more, so a second
\* refill at the same instant changes nothing.
C36_ElapsedTimeCreditedOnce ==
    /\ [](\A b \in Allocated :
            buckets[b].credited
                <= buckets[b].refill_rate
                      * SecondsPassed(Elapsed(now, buckets[b].made_at)))
    /\ [][\A b \in Allocated :
            (\/ buckets'[b].tokens > buckets[b].tokens
             \/ buckets'[b].credited > buckets[b].credited) =>
                buckets'[b].last_refill >= buckets[b].last_refill + TicksPerSec]_vars

\* the refill task and a caller have both run refill() on the global bucket
\* in the same second, and one second's tokens were credited
C36_Witness ==
    /\ buckets[GlobalBucket].credited = buckets[GlobalBucket].refill_rate
    /\ buckets[GlobalBucket].last_refill >= TicksPerSec
    /\ bg.pc = "wait" /\ bg.next > TicksPerSec
    /\ \E p \in Callers : call[p].pc = "done" /\ call[p].k >= 1
    /\ now = buckets[GlobalBucket].last_refill
    /\ TotalStarted = MaxChecks
    /\ \A p \in Callers : call[p].pc \in {"idle", "done"}

\* the entry is one variant of CacheEntry (or no entry), with that variant's
\* fields only
OneVariant(entry) ==
    CASE entry.variant = "Absent" -> entry = Absent
      [] entry.variant = "Valid" ->
            entry.data # NoData /\ entry = Valid(entry.data)
      [] entry.variant = "Invalid" ->
            entry.error # NoError /\ entry = Invalid(entry.error, entry.remaining)
      [] entry.variant = "InvalidExhausted" ->
            entry.error # NoError /\ entry = InvalidExhausted(entry.error)
      [] OTHER -> FALSE

\* C38: whatever get_repository_info calls have run, an Invalid entry in the
\* cache has a remaining count between 1 and DEFAULT_API_RETRIES, and each key
\* holds one variant of CacheEntry or nothing.
C38_RetryableBudgetInRange ==
    \A key \in DOMAIN cache :
        /\ cache[key].variant = "Invalid" =>
              cache[key].remaining \in 1..DEFAULT_API_RETRIES
        /\ OneVariant(cache[key])

\* a failing call found Invalid with one attempt left and stored the
\* exhausted entry in its place
C38_Witness ==
    /\ Returned
    /\ FailedRetryably
    /\ fetch[1].pre = Invalid(fetch[1].pre.error, 1)
    /\ cache[fetch[1].key] = InvalidExhausted(fetch[1].res.error)

\* the upstream call of caller 1 failed with NotFound or an ApiError below 500
FailedQuietly ==
    /\ CalledUpstream
    /\ fetch[1].res.tag = "Err"
    /\ \/ fetch[1].res.error.kind = "NotFound"
       \/ fetch[1].res.error.kind = "ApiError" /\ fetch[1].res.error.code < 500

\* C39: a call whose upstream request fails with NotFound or an ApiError
\* below 500 sends the breaker no signal, and the step that handles the error
\* leaves the breaker as it is; so a call failing with the fifth network
\* error, rate limit or 5xx since the last success leaves the breaker Open,
\* whatever other failures came in between.
C39_QuietFailureKeepsBreaker ==
    /\ [](/\ (Returned /\ FailedQuietly) =>
              /\ fetch[1].signal = "none"
              /\ fetch[1].signals = 0
              /\ BreakerCountersKept
          /\ (Returned /\ CalledUpstream
                 /\ CountsAsFailure(fetch[1].res.error)
                 /\ run.streak >= ConsecutiveFailuresLimit) =>
              breaker.state = "Open")
    /\ [][(fetch[1].pc = "err_signal" /\ FailedQuietly
             /\ fetch'[1].pc # "err_signal") => breaker' = breaker]_vars

\* four network errors, then a 404, then one more network error: the 404
\* left the count at four and the last error opened the breaker
C39_Witness ==
    /\ Returned
    /\ CalledUpstream
    /\ fetch[1].res = Err(NetworkError)
    /\ run.streak = ConsecutiveFailuresLimit
    /\ run.pure
    /\ run.broke = NotFound
    /\ run.len = 1
    /\ fetch[1].pre_breaker.state = "Closed"
    /\ fetch[1].pre_breaker.consecutive_failures = ConsecutiveFailuresLimit - 1
    /\ breaker.state = "Open"

\* C40: a get_or_create that returns a value returns one whose meaning is the
\* meaning it was called with, and two calls made with different meanings are
\* never made with the same key.
C40_ValueHasTheMeaningAsked ==
    \A p \in CacheCallers :
        /\ (goc[p].pc = "done" /\ goc[p].result.tag = "Ok") =>
              goc[p].result.value.meaning = goc[p].meaning
        /\ \A q \in CacheCallers :
              (goc[p].pc # "idle" /\ goc[q].pc # "idle"
                 /\ goc[p].key = goc[q].key) => goc[p].meaning = goc[q].meaning

=============================================================================
